---- MODULE Spec2Model ----
(***************************************************************************)
(* Daemon lifecycle of the zeroclaw-ffi crate (runtime.rs): the DAEMON     *)
(* slot behind its mutex, the RUNTIME singleton, the supervised tasks      *)
(* spawned by start_daemon_inner and aborted by stop_daemon_inner, and the *)
(* query helpers (is_daemon_running, get_status_inner, with_cost_tracker,  *)
(* with_daemon_config, with_memory, send_message_inner) as they are called *)
(* from concurrent foreign caller threads.                                 *)
(*                                                                         *)
(* An Option<T> is a sequence of length 0 (None) or 1 (Some).  A string    *)
(* that the code inspects character by character is a sequence of          *)
(* one-character strings.                                                  *)
(***************************************************************************)
EXTENDS Integers, Sequences, FiniteSets, TLC

\* ---------------------------------------------------------------- bounds
\* Number of times start_daemon_inner may get as far as spawning tasks.
MaxStarts == 2

\* Number of attempts of the supervised component that are followed.
MaxRestarts == 8

\* Number of events one thread records back to back into the empty buffer.
MaxEvents == 550

\* Number of events each of the concurrent producer threads records.
MaxRecords == 2

\* Length of the longest string escape_json_string is applied to.
MaxEscapeLen == 2

\* ------------------------------------------------------- program constants
MAX_MESSAGE_BYTES == 1048576
EVENT_BUFFER_CAPACITY == 500

\* Foreign caller threads (Kotlin IO dispatcher threads).
Callers == {"t1", "t2"}

\* ------------------------------------------------------------ input sets
DataDirs == { <<"/", "d">>, <<"d">>, <<"/", ".", ".">> }
Hosts == { <<"h", "1">>, <<>>, <<"h", "/">> }
ConfigTexts == {"bad", "minimal", "full"}
MessageLens == {5, MAX_MESSAGE_BYTES + 1}

NoArgs == [data_dir |-> <<>>, host |-> <<>>, config_toml |-> "", port |-> 0, msg_len |-> 0]

\* ------------------------------------------------------------- FfiError
Err(kind, detail) == [kind |-> kind, detail |-> detail]
Ok(value) == [kind |-> "Ok", detail |-> value]
NoRet == [kind |-> "none", detail |-> ""]

\* the poisoned mutex reported as a stopped daemon
StateCorrupted_AsStateError == Err("StateError", "daemon not running")

\* lock().map_err(..) on the DAEMON mutex (runtime.rs, lines 62-64, 226-230, 369-373)
StateCorrupted == Err("StateCorrupted", "daemon mutex poisoned")

\* ------------------------------------------------------ panic boundary
\* Panic payloads (Box<dyn Any + Send>): the &'static str of panic!("literal"),
\* the String of a formatted panic!, and any other value (panic_any).
NoPayload == [type |-> "none", text |-> ""]
StrPayload == [type |-> "&str", text |-> "explicit panic"]
PanicPayloads ==
  { StrPayload,
    [type |-> "String", text |-> "index out of bounds: the len is 0"],
    [type |-> "other", text |-> ""] }

\* the String downcast left out
panic_detail_StrOnly(payload) ==
  IF payload.type = "&str" THEN payload.text ELSE "unknown panic"

\* lib.rs, lines 36-42: downcast to &str, else to String, else "unknown panic"
panic_detail(payload) ==
  IF payload.type = "&str" THEN payload.text
  ELSE IF payload.type = "String" THEN payload.text
  ELSE "unknown panic"

\* catch_unwind(..).unwrap_or_else(|e| Err(InternalPanic { detail: panic_detail(&e) }))
InternalPanic(payload) == Err("InternalPanic", panic_detail(payload))

\* the absence of the state reported with the wrong error variant
NotRunning_AsSpawnError == Err("SpawnError", "daemon not running")

NotRunning == Err("StateError", "daemon not running")
AlreadyRunning == Err("StateError", "daemon already running")

\* -------------------------------------------------------- pure functions
\* str::starts_with('/')
StartsWithSlash(s) == Len(s) > 0 /\ s[1] = "/"

\* the '..' check left out
ContainsDotDot_Never(s) == FALSE

\* str::contains("..")
ContainsDotDot(s) == \E i \in 1..(Len(s) - 1) : s[i] = "." /\ s[i + 1] = "."

AsciiAlnum == {"h", "1", "a", "Z", "0"}

\* a predicate that lets every character through
HostCharOk_Any(c) == TRUE

\* the predicate of host.chars().all(...)
HostCharOk(c) == c \in AsciiAlnum \/ c = "." \/ c = ":" \/ c = "-"

\* The largest value of the backoff counters (u64::MAX in the build; here the
\* largest integer the model's arithmetic holds).
BACKOFF_MAX == 2147483647

\* toml::from_str::<Config> on the sample texts: the fields start_daemon_inner reads
\* (reliability.channel_initial_backoff_secs / channel_max_backoff_secs are set
\* to 1/60 by "minimal", 2/10 by "full", 0/0 by "zero_backoff", 10/5 by
\* "inverted_backoff", and to values at the top of the integer range by
\* "huge_backoff", "half_backoff" and "huge_inverted"; `channels` is the set of
\* entries of channels_config that are configured)
ParseConfig(text) ==
  CASE text = "minimal" -> [ok |-> TRUE, cost_enabled |-> FALSE,
                            heartbeat_enabled |-> FALSE, channels |-> {},
                            channel_initial_backoff_secs |-> 1,
                            channel_max_backoff_secs |-> 60]
    [] text = "full"    -> [ok |-> TRUE, cost_enabled |-> TRUE,
                            heartbeat_enabled |-> TRUE, channels |-> {"telegram", "email"},
                            channel_initial_backoff_secs |-> 2,
                            channel_max_backoff_secs |-> 10]
    [] text = "zero_backoff" ->
                           [ok |-> TRUE, cost_enabled |-> FALSE,
                            heartbeat_enabled |-> FALSE, channels |-> {},
                            channel_initial_backoff_secs |-> 0,
                            channel_max_backoff_secs |-> 0]
    [] text = "inverted_backoff" ->
                           [ok |-> TRUE, cost_enabled |-> FALSE,
                            heartbeat_enabled |-> FALSE, channels |-> {},
                            channel_initial_backoff_secs |-> 10,
                            channel_max_backoff_secs |-> 5]
    [] text = "huge_backoff" ->
                           [ok |-> TRUE, cost_enabled |-> FALSE,
                            heartbeat_enabled |-> FALSE, channels |-> {},
                            channel_initial_backoff_secs |-> BACKOFF_MAX \div 2 + 1,
                            channel_max_backoff_secs |-> BACKOFF_MAX]
    [] text = "half_backoff" ->
                           [ok |-> TRUE, cost_enabled |-> FALSE,
                            heartbeat_enabled |-> FALSE, channels |-> {},
                            channel_initial_backoff_secs |-> BACKOFF_MAX \div 4,
                            channel_max_backoff_secs |-> BACKOFF_MAX - 1]
    [] text = "huge_inverted" ->
                           [ok |-> TRUE, cost_enabled |-> FALSE,
                            heartbeat_enabled |-> FALSE, channels |-> {},
                            channel_initial_backoff_secs |-> BACKOFF_MAX - 1,
                            channel_max_backoff_secs |-> 3]
    [] text = "channels_only" ->
                           [ok |-> TRUE, cost_enabled |-> FALSE,
                            heartbeat_enabled |-> FALSE, channels |-> {"matrix"},
                            channel_initial_backoff_secs |-> 1,
                            channel_max_backoff_secs |-> 60]
    [] text = "heartbeat_only" ->
                           [ok |-> TRUE, cost_enabled |-> FALSE,
                            heartbeat_enabled |-> TRUE, channels |-> {},
                            channel_initial_backoff_secs |-> 1,
                            channel_max_backoff_secs |-> 60]
    [] text = "cli_only" ->
                           [ok |-> TRUE, cost_enabled |-> FALSE,
                            heartbeat_enabled |-> FALSE, channels |-> {"cli", "webhook"},
                            channel_initial_backoff_secs |-> 1,
                            channel_max_backoff_secs |-> 60]
    [] OTHER            -> [ok |-> FALSE, cost_enabled |-> FALSE,
                            heartbeat_enabled |-> FALSE, channels |-> {},
                            channel_initial_backoff_secs |-> 0,
                            channel_max_backoff_secs |-> 0]

\* The channel types that has_supervised_channels looks at (lines 728-734).
SupervisedChannels ==
  {"telegram", "discord", "slack", "imessage", "matrix", "whatsapp", "email"}

\* any entry of channels_config counted, the CLI and the webhook included
has_supervised_channels_AnyChannel(config) == config.channels # {}

\* runtime.rs, lines 727-735
has_supervised_channels(config) == \E c \in SupervisedChannels : c \in config.channels

\* a parse failure ignored, the defaults used in its place
ConfigParses_Lenient(text) == TRUE

\* toml::from_str(&config_toml) returned Ok  (lines 212-214)
ConfigParses(text) == ParseConfig(text).ok

\* The argument checks at the head of start_daemon_inner, in source order;
\* <<>> when every check passes, <<error>> for the first that fails.
ValidateStartArgs(a) ==
  IF ~StartsWithSlash(a.data_dir)
    THEN <<Err("ConfigError", "data_dir must be an absolute path")>>
  ELSE IF ContainsDotDot(a.data_dir)
    THEN <<Err("ConfigError", "data_dir must not contain '..' segments")>>
  ELSE IF Len(a.host) = 0
    THEN <<Err("ConfigError", "host must not be empty")>>
  ELSE IF ~(\A i \in 1..Len(a.host) : HostCharOk(a.host[i]))
    THEN <<Err("ConfigError", "host contains invalid characters")>>
  ELSE IF ~ConfigParses(a.config_toml)
    THEN <<Err("ConfigError", "failed to parse config TOML")>>
  ELSE <<>>

\* Option::is_some on the slot
IsSome(slot) == Len(slot) > 0

\* Option::as_ref().cloned() in place of take(): the slot keeps its value
TakeLeaves_Clone(slot) == slot

\* Option::take on the slot: the value left behind in the slot
TakeLeaves(slot) == <<>>

\* a status read that reports running whatever the slot holds
ReportRunning_Always(slot) == "true"

\* `guard.is_some()` as is_daemon_running / get_status_inner report it
ReportRunning(slot) == IF IsSome(slot) THEN "true" ELSE "false"

\* The names of the supervised tasks in the order their handles are pushed.
TaskNames == {"state_writer", "gateway", "channels", "heartbeat", "scheduler"}

HandlesFor(config) ==
  <<"state_writer", "gateway">>
    \o (IF has_supervised_channels(config) THEN <<"channels">> ELSE <<>>)
    \o (IF config.heartbeat_enabled THEN <<"heartbeat">> ELSE <<>>)
    \o <<"scheduler">>

\* zeroclaw::health entries as mark_component_ok / mark_component_error leave them
NoHealth == [status |-> "unset", last_error |-> ""]
HealthOk == [status |-> "ok", last_error |-> ""]
HealthError(msg) == [status |-> "error", last_error |-> msg]

Range(s) == { s[i] : i \in 1..Len(s) }

\* u64::max / u64::min
Max(a, b) == IF a >= b THEN a ELSE b
Min(a, b) == IF a <= b THEN a ELSE b

\* u64::wrapping_mul(2): 2 * b modulo BACKOFF_MAX + 1
SaturatingDouble_Wrapping(b) ==
  IF b > BACKOFF_MAX \div 2 THEN 2 * (b - BACKOFF_MAX \div 2 - 1) ELSE 2 * b

\* u64::saturating_mul(2)
SaturatingDouble(b) == IF b > BACKOFF_MAX \div 2 THEN BACKOFF_MAX ELSE 2 * b

\* The supervised component whose supervisor loop is followed step by step.
SupervisedName == "gateway"

\* The supervisor before any task was spawned, and its history.
NoSup == [gen |-> 0, pc |-> "none", initial_backoff_secs |-> 0, max_backoff_secs |-> 0,
          backoff |-> 0, max_backoff |-> 0, health |-> NoHealth, restart_bumps |-> 0]
NoSupHist == [iteration |-> 0, slept |-> 0, prev_slept |-> 0, all_errors |-> TRUE,
              last |-> "none", config |-> ""]

Gens == 1..(MaxStarts + 1)

\* ------------------------------------------------------- event bridge data
\* Runtime worker threads that call record_event, and the foreign thread that
\* registers, unregisters and reads the buffer.
Producers == {"p1", "p2"}
Admins == {"ui"}
EventThreads == Producers \cup Admins

\* Foreign listener objects: on_event of "A" returns at once, on_event of "B"
\* calls back into the crate before it returns.
Listeners == {"A", "B"}
ReentrantListeners == {"B"}
\* A listener whose on_event asks for the daemon status (get_status).
StatusListeners == {"C"}
\* The runtime worker thread on which the heartbeat task records its events
\* (run_heartbeat_worker hands AndroidObserver to the heartbeat engine).
HeartbeatWorker == "p1"

\* `limit` arguments of get_recent_events
Limits == {0, 2, 5}

NoEventArg == [listener |-> "", limit |-> 0]

\* The calls the on_event of a re-entrant listener makes.
CallbackCalls ==
  { [name |-> "register", first |-> "reg_lock", arg |-> [listener |-> "A", limit |-> 0]],
    [name |-> "unregister", first |-> "unreg_lock", arg |-> NoEventArg],
    [name |-> "recent", first |-> "recent_lock", arg |-> [listener |-> "", limit |-> 2]] }

\* format_event_json: the buffered entry carries the id and the kind
format_event_json(id, kind) == [id |-> id, kind |-> kind]

\* a counter that is read but not advanced
FetchAdd_Stuck(counter) == counter

\* EVENT_COUNTER.fetch_add(1, Relaxed): the counter after the call
FetchAdd(counter) == counter + 1

\* the eviction left out
NeedsEvict_Never(len) == FALSE

\* `buf.len() >= EVENT_BUFFER_CAPACITY`
NeedsEvict(len) == len >= EVENT_BUFFER_CAPACITY

\* pop_front when full, then push_back
PushBounded(buf, json) ==
  Append(IF NeedsEvict(Len(buf)) THEN Tail(buf) ELSE buf, json)

\* usize::saturating_sub
SaturatingSub(a, b) == IF a >= b THEN a - b ELSE 0

\* the window taken from the front of the buffer
RecentWindow_Oldest(buf, limit) ==
  SubSeq(buf, 1, IF limit <= Len(buf) THEN limit ELSE Len(buf))

\* buf.range(buf.len().saturating_sub(limit)..)
RecentWindow(buf, limit) ==
  SubSeq(buf, SaturatingSub(Len(buf), limit) + 1, Len(buf))

\* the entries ids first..last, as a single thread records them in a row
Recorded(first, last) ==
  [i \in 1..(last - first + 1) |-> format_event_json(first + i - 1, "heartbeat_tick")]

\* ------------------------------------------------- escape_json_string
\* Characters are their code points; a string is a sequence of characters.
QUOTE == 34
BACKSLASH == 92

\* The characters strings are drawn from: the quote, the backslash, newline,
\* carriage return, tab, NUL, two other control characters (backspace and
\* 0x1F), and the ordinary characters '/', 'a', 'u', DEL and e-acute.
EscapeChars == {34, 92, 10, 13, 9, 0, 8, 31, 47, 97, 117, 127, 233}

\* The digit d (0..15) in upper-case hexadecimal, as `{:X}` prints it.
UpperHex(d) == IF d < 10 THEN 48 + d ELSE 55 + d

\* control characters without a short escape pushed as they are
EscapeChar_ControlsRaw(c) ==
  CASE c = 34 -> <<92, 34>>
    [] c = 92 -> <<92, 92>>
    [] c = 10 -> <<92, 110>>
    [] c = 13 -> <<92, 114>>
    [] c = 9  -> <<92, 116>>
    [] OTHER  -> <<c>>

\* events.rs, lines 264-274: the match on one character of the input
EscapeChar(c) ==
  CASE c = 34 -> <<92, 34>>
    [] c = 92 -> <<92, 92>>
    [] c = 10 -> <<92, 110>>
    [] c = 13 -> <<92, 114>>
    [] c = 9  -> <<92, 116>>
    [] c \notin {34, 92, 10, 13, 9} /\ c < 32 ->
         <<92, 117, UpperHex((c \div 4096) % 16), UpperHex((c \div 256) % 16),
           UpperHex((c \div 16) % 16), UpperHex(c % 16)>>
    [] OTHER  -> <<c>>

RECURSIVE escape_json_string(_)
\* events.rs, lines 260-277
escape_json_string(s) ==
  IF s = <<>> THEN <<>> ELSE EscapeChar(Head(s)) \o escape_json_string(Tail(s))

\* The value of a hexadecimal digit character, -1 for any other character.
HexVal(c) ==
  IF c >= 48 /\ c <= 57 THEN c - 48
  ELSE IF c >= 65 /\ c <= 70 THEN c - 55
  ELSE IF c >= 97 /\ c <= 102 THEN c - 87
  ELSE -1

ParseError == [ok |-> FALSE, value |-> <<>>]

RECURSIVE ParseChars(_, _, _)
\* The JSON parser (serde_json, RFC 8259) inside a string literal: w is the
\* text after the opening quote, i the position, acc the characters decoded.
\* A raw control character, an unknown escape, a truncated \u escape, a
\* surrogate code unit, text after the closing quote and a missing closing
\* quote are errors.
ParseChars(w, i, acc) ==
  IF i > Len(w) THEN ParseError
  ELSE IF w[i] = QUOTE
    THEN IF i = Len(w) THEN [ok |-> TRUE, value |-> acc] ELSE ParseError
  ELSE IF w[i] = BACKSLASH
    THEN IF i + 1 > Len(w) THEN ParseError
         ELSE LET e == w[i + 1] IN
           CASE e = 34  -> ParseChars(w, i + 2, Append(acc, 34))
             [] e = 92  -> ParseChars(w, i + 2, Append(acc, 92))
             [] e = 47  -> ParseChars(w, i + 2, Append(acc, 47))
             [] e = 98  -> ParseChars(w, i + 2, Append(acc, 8))
             [] e = 102 -> ParseChars(w, i + 2, Append(acc, 12))
             [] e = 110 -> ParseChars(w, i + 2, Append(acc, 10))
             [] e = 114 -> ParseChars(w, i + 2, Append(acc, 13))
             [] e = 116 -> ParseChars(w, i + 2, Append(acc, 9))
             [] e = 117 ->
                  IF i + 5 > Len(w) THEN ParseError
                  ELSE IF \E k \in 2..5 : HexVal(w[i + k]) = -1 THEN ParseError
                  ELSE LET code == 4096 * HexVal(w[i + 2]) + 256 * HexVal(w[i + 3])
                                   + 16 * HexVal(w[i + 4]) + HexVal(w[i + 5]) IN
                    IF code >= 55296 /\ code <= 57343 THEN ParseError
                    ELSE ParseChars(w, i + 6, Append(acc, code))
             [] OTHER   -> ParseError
  ELSE IF w[i] < 32 THEN ParseError
  ELSE ParseChars(w, i + 1, Append(acc, w[i]))

\* serde_json::from_str::<String>(text)
ParseJsonString(text) ==
  IF text = <<>> \/ Head(text) # QUOTE THEN ParseError
  ELSE ParseChars(Tail(text), 1, <<>>)

\* ------------------------------------------------------- check_budget
\* zeroclaw::cost::UsagePeriod
UsagePeriods == {"Session", "Day", "Month"}

\* Amounts in USD that the tracker reports (current spending and limit).
UsdAmounts == {0, 8, 10, 12}

\* zeroclaw::cost::BudgetCheck: Allowed carries no payload.
BudgetAllowed == [variant |-> "Allowed", current_usd |-> 0, limit_usd |-> 0, period |-> ""]
BudgetChecks ==
  {BudgetAllowed}
    \cup [variant : {"Warning", "Exceeded"}, current_usd : UsdAmounts,
          limit_usd : UsdAmounts, period : UsagePeriods]

\* cost.rs, lines 124-130
format_period(period) ==
  CASE period = "Session" -> "session"
    [] period = "Day"     -> "day"
    [] period = "Month"   -> "month"

\* a warning reported as an exceeded budget
FfiBudgetStatus_WarningAsExceeded(check) ==
  CASE check.variant = "Allowed" -> BudgetAllowed
    [] check.variant \in {"Warning", "Exceeded"} ->
         [variant |-> "Exceeded", current_usd |-> check.current_usd,
          limit_usd |-> check.limit_usd, period |-> format_period(check.period)]

\* cost.rs, lines 100-120: the match that builds the FfiBudgetStatus
FfiBudgetStatus(check) ==
  CASE check.variant = "Allowed" -> BudgetAllowed
    [] check.variant = "Warning" ->
         [variant |-> "Warning", current_usd |-> check.current_usd,
          limit_usd |-> check.limit_usd, period |-> format_period(check.period)]
    [] check.variant = "Exceeded" ->
         [variant |-> "Exceeded", current_usd |-> check.current_usd,
          limit_usd |-> check.limit_usd, period |-> format_period(check.period)]

\* ---------------------------------------------------- create_workspace
\* workspace.rs, line 23
SUBDIRS == <<"sessions", "memory", "state", "cron", "skills">>

\* The file names of template_files, in its order (lines 94-103).
TemplateNames == <<"IDENTITY.md", "AGENTS.md", "HEARTBEAT.md", "SOUL.md", "USER.md",
                   "TOOLS.md", "BOOTSTRAP.md", "MEMORY.md">>

\* The parameters of one call: all empty, or all given.
ScaffoldParams ==
  { [agent_name |-> "", user_name |-> "", timezone |-> "", communication_style |-> ""],
    [agent_name |-> "Nova", user_name |-> "Ada", timezone |-> "Europe/Paris",
     communication_style |-> "terse"] }

\* `if x.is_empty() { default } else { x }` (lines 49-64)
OrDefault(x, default) == IF x = "" THEN default ELSE x

\* The content of a file: who wrote it and, for a rendered template, the
\* values that the template interpolates.
Content(by, agent, user, tz, comm) ==
  [by |-> by, agent |-> agent, user |-> user, tz |-> tz, comm |-> comm]
Absent == Content("absent", "", "", "", "")
UserEdited == Content("user", "", "", "", "")
Truncated == Content("truncated", "", "", "", "")

\* template_files (lines 88-104) after the defaults: identity_md, agents_md and
\* heartbeat_md take the agent; soul_md the agent and the style; user_md and
\* bootstrap_md all four; TOOLS_MD and MEMORY_MD are constants.
Rendered(name, p) ==
  LET agent == OrDefault(p.agent_name, "ZeroClaw")
      user  == OrDefault(p.user_name, "User")
      tz    == OrDefault(p.timezone, "UTC")
      comm  == OrDefault(p.communication_style, "DEFAULT_COMM_STYLE") IN
    CASE name \in {"IDENTITY.md", "AGENTS.md", "HEARTBEAT.md"} ->
           Content("template", agent, "", "", "")
      [] name = "SOUL.md" -> Content("template", agent, "", "", comm)
      [] name \in {"USER.md", "BOOTSTRAP.md"} -> Content("template", agent, user, tz, comm)
      [] name \in {"TOOLS.md", "MEMORY.md"} -> Content("template", "", "", "", "")

\* every file written, whether it exists or not
ShouldWrite_Always(content) == TRUE

\* `if !path.exists()` (line 77)
ShouldWrite(content) == content = Absent

\* No pure function is under evaluation.
NoCalc == [pc |-> "none"]

\* ------------------------------------------------------------- variables
VARIABLES
  daemon,       \* DAEMON: the slot, <<>> or <<DaemonState>>
  lockHolder,   \* holder of the DAEMON mutex: <<>> or <<caller>>
  poisoned,     \* the DAEMON mutex is poisoned
  runtime,      \* RUNTIME: <<>> or <<caller whose build was installed>>
  tasks,        \* tasks[g][name]: "none", "running", "aborting", "done"
  nextGen,      \* identity of the next set of JoinHandles
  health,       \* zeroclaw::health component status for "daemon" and "channels"
  workspace,    \* the set of data_dirs whose workspace directory exists on disk
  pc,           \* position of each caller inside its current call
  op,           \* the exported operation each caller is in (or was last in)
  ret,          \* the result of each caller's last finished call
  arg,          \* the arguments of the current call
  built,        \* the caller holds a freshly built Runtime not yet installed
  local_state,  \* a DaemonState owned by the caller (being built, or taken)
  joinIdx,      \* index into state.handles of the handle being awaited
  daemon_running, \* the local `daemon_running` of a status read
  snap,         \* history: what the slot held when the call was entered
                \* ("entered_running" / "entered_stopped") and, once the call has
                \* locked the mutex, what it held then ("some" / "none")
  effects,      \* history: process-wide state the current call has written
  okStarts,     \* history: number of start_daemon calls that returned Ok
  okStops,      \* history: number of stop_daemon calls that returned Ok
  init_failed,  \* history: the optional subsystems ("cost", "memory") whose
                \* initialisation failed in the most recent spawning Start
  thrown,       \* history: the payload of the latest panic raised inside a call
                \* of each caller
  sup,          \* the supervisor task of SupervisedName in the latest generation:
                \* its position in the loop, its arguments and locals, and the
                \* health entry of its component and the number of times it
                \* has called bump_component_restart for it
  sup_hist,     \* history: the number of sleeps the supervisor has begun, the
                \* length of the latest and of the one before, whether every
                \* attempt so far failed with an error, the latest outcome, and
                \* the configuration text the daemon was started with
  event_counter,  \* EVENT_COUNTER
  event_buffer,   \* EVENT_BUFFER: the entries, oldest first
  listener,       \* LISTENER: <<>> or <<listener>>
  buf_lock,       \* holder of the EVENT_BUFFER mutex: <<>> or <<thread>>
  lis_lock,       \* holder of the LISTENER mutex: <<>> or <<thread>>
  epc,            \* position of each event thread inside its current call
  eid,            \* the local `id` of record_event (-1 outside a call)
  maybe_listener, \* the local `maybe_listener` of record_event
  earg,           \* the argument of the current register / get_recent_events call
  eresult,        \* the entries returned by the thread's last get_recent_events
  in_callback,    \* the thread is inside on_event, called from record_event
  quota,          \* the number of Observer calls (record_event, record_metric)
                  \* each producer thread has yet to make
  issued,         \* history: the ids in the order in which they were obtained
  pushed,         \* history: the entries in the order in which they were buffered
  lis_poisoned,   \* the LISTENER mutex is poisoned
  eret,           \* the result of each foreign thread's last register /
                  \* unregister / get_recent_events call
  settled,        \* history: what the latest register / unregister call that has
                  \* returned asked the slot to hold: <<>> or <<listener>>
  calc,           \* the pure function under evaluation: its input, the position
                  \* of the evaluation and its results
  since,          \* history: for each thread inside record_event, the values of
                  \* `settled` from the start of its call onwards
  on_event_calls, \* history: for each thread whose deliveries are followed, the
                  \* on_event invocations it has made, in order: the id of the
                  \* event, the listener invoked, and whether the callback is
                  \* "running" or has "returned"
  writer          \* daemon_state.json: the generation whose snapshot the file
                  \* holds (0: no file) and the generations with a write
                  \* running on the blocking pool

vars == <<daemon, lockHolder, poisoned, runtime, tasks, nextGen, health, workspace,
          pc, op, ret, arg, built, local_state, joinIdx, daemon_running,
          snap, effects, okStarts, okStops, init_failed, thrown, sup, sup_hist,
          event_counter, event_buffer, listener, buf_lock, lis_lock, epc, eid,
          maybe_listener, earg, eresult, in_callback, quota, issued, pushed,
          settled, since, lis_poisoned, eret, calc, on_event_calls, writer>>

shared == <<daemon, lockHolder, poisoned, runtime, tasks, nextGen, health, workspace>>
history == <<okStarts, okStops, init_failed, thrown>>
\* what no foreign call writes
evVars == <<event_counter, event_buffer, listener, buf_lock, lis_lock, epc, eid,
            maybe_listener, earg, eresult, in_callback, quota, issued, pushed,
            settled, since, lis_poisoned, eret, on_event_calls>>
offCall == <<sup, sup_hist, evVars, calc, writer>>

\* no daemon_state.json, no write under way
NoWriter == [file |-> 0, in_flight |-> {}]

InitLifecycle ==
  /\ daemon = <<>>
  /\ lockHolder = <<>>
  /\ poisoned = FALSE
  /\ runtime = <<>>
  /\ tasks = [g \in Gens |-> [n \in TaskNames |-> "none"]]
  /\ nextGen = 1
  /\ health = [c \in {"daemon", "channels"} |-> NoHealth]
  /\ workspace = {}
  /\ pc = [t \in Callers |-> "idle"]
  /\ op = [t \in Callers |-> "none"]
  /\ ret = [t \in Callers |-> NoRet]
  /\ arg = [t \in Callers |-> NoArgs]
  /\ built = [t \in Callers |-> FALSE]
  /\ local_state = [t \in Callers |-> <<>>]
  /\ joinIdx = [t \in Callers |-> 0]
  /\ daemon_running = [t \in Callers |-> "unread"]
  /\ snap = [t \in Callers |-> "unseen"]
  /\ effects = [t \in Callers |-> {}]
  /\ okStarts = 0
  /\ okStops = 0
  /\ init_failed = {}
  /\ thrown = [t \in Callers |-> NoPayload]
  /\ sup = NoSup
  /\ sup_hist = NoSupHist
  /\ writer = NoWriter

\* The event bridge of a process in which n events have been recorded, one
\* after the other, and no listener is registered; the deliveries of the
\* threads in `followed` are kept as history.
InitEventBridgeFollowing(n, followed) ==
  /\ event_counter = n
  /\ event_buffer = Recorded(SaturatingSub(n, EVENT_BUFFER_CAPACITY), n - 1)
  /\ listener = <<>>
  /\ buf_lock = <<>>
  /\ lis_lock = <<>>
  /\ epc = [t \in EventThreads |-> "idle"]
  /\ eid = [t \in EventThreads |-> -1]
  /\ maybe_listener = [t \in EventThreads |-> <<>>]
  /\ earg = [t \in EventThreads |-> NoEventArg]
  /\ eresult = [t \in EventThreads |-> <<>>]
  /\ in_callback = [t \in EventThreads |-> FALSE]
  /\ issued = [i \in 1..n |-> i - 1]
  /\ pushed = Recorded(0, n - 1)
  /\ settled = <<>>
  /\ since = [t \in EventThreads |-> {}]
  /\ on_event_calls = [t \in followed |-> <<>>]
  /\ lis_poisoned = FALSE
  /\ eret = [t \in EventThreads |-> NoRet]

InitEventBridge(n) == InitEventBridgeFollowing(n, {})

Init ==
  /\ InitLifecycle
  /\ calc = NoCalc
  /\ InitEventBridge(0)
  /\ quota = [t \in EventThreads |-> 0]

\* --------------------------------------------------------------- helpers
\* A caller enters an exported function.
Enter(t, name, first, a) ==
  /\ pc[t] = "idle"
  /\ pc' = [pc EXCEPT ![t] = first]
  /\ op' = [op EXCEPT ![t] = name]
  /\ ret' = [ret EXCEPT ![t] = NoRet]
  /\ arg' = [arg EXCEPT ![t] = a]
  /\ snap' = [snap EXCEPT ![t] = IF Len(daemon) > 0 THEN "entered_running"
                                                     ELSE "entered_stopped"]
  /\ effects' = [effects EXCEPT ![t] = {}]
  /\ UNCHANGED <<shared, history, built, local_state, joinIdx, daemon_running, offCall>>

\* A caller returns r; its locals are dropped.
Return(t, r) ==
  /\ pc' = [pc EXCEPT ![t] = "idle"]
  /\ ret' = [ret EXCEPT ![t] = r]
  /\ arg' = [arg EXCEPT ![t] = NoArgs]
  /\ built' = [built EXCEPT ![t] = FALSE]
  /\ joinIdx' = [joinIdx EXCEPT ![t] = 0]
  /\ daemon_running' = [daemon_running EXCEPT ![t] = "unread"]
  /\ UNCHANGED <<op, offCall>>

Goto(t, next) ==
  /\ pc' = [pc EXCEPT ![t] = next]
  /\ UNCHANGED <<op, ret, offCall>>

Effect(t, e) == effects' = [effects EXCEPT ![t] = @ \cup {e}]

\* Mutex::lock succeeds only while nobody holds the mutex.
LockFree == lockHolder = <<>>

\* The position a call continues at once it holds the runtime reference.
AfterRuntime(name) ==
  CASE name = "start_daemon" -> "start_lock"
    [] name = "stop_daemon"  -> "stop_lock"
    [] name = "send_message" -> "send_lock"
    [] OTHER                 -> "mem_call"

\* ------------------------------------------------- get_or_create_runtime
\* RUNTIME.get(); when unset, Builder::build() (which may fail)
RuntimeGet(t) ==
  /\ pc[t] = "rt_get"
  /\ IF IsSome(runtime)
       THEN /\ Goto(t, AfterRuntime(op[t]))
            /\ UNCHANGED <<shared, history, arg, built, local_state, joinIdx,
                           daemon_running, snap, effects>>
       ELSE \/ /\ Goto(t, "rt_set")
               /\ built' = [built EXCEPT ![t] = TRUE]
               /\ UNCHANGED <<shared, history, arg, local_state, joinIdx,
                              daemon_running, snap, effects>>
            \/ /\ Return(t, Err("SpawnError", "failed to create tokio runtime"))
               /\ UNCHANGED <<shared, history, local_state, snap, effects>>

\* the later build stored over the first
RuntimeAfterSet_Overwrite(cur, t) == <<t>>

\* OnceLock::set: the value stored by `let _ = RUNTIME.set(rt)`
RuntimeAfterSet(cur, t) == IF IsSome(cur) THEN cur ELSE <<t>>

\* let _ = RUNTIME.set(rt); Ok(RUNTIME.get().expect("just set"))
RuntimeSet(t) ==
  /\ pc[t] = "rt_set"
  /\ runtime' = RuntimeAfterSet(runtime, t)
  /\ built' = [built EXCEPT ![t] = FALSE]
  /\ effects' = [effects EXCEPT ![t] = IF runtime' # runtime THEN @ \cup {"runtime"} ELSE @]
  /\ Goto(t, AfterRuntime(op[t]))
  /\ UNCHANGED <<daemon, lockHolder, poisoned, tasks, nextGen, health, workspace,
                 history, arg, local_state, joinIdx, daemon_running, snap>>

\* ---------------------------------------------------- start_daemon_inner
StartCall(t, a) ==
  /\ nextGen <= MaxStarts
  /\ Enter(t, "start_daemon", "start_validate", a)

\* lines 187-214: data_dir, host and TOML checks
StartValidate(t) ==
  /\ pc[t] = "start_validate"
  /\ LET v == ValidateStartArgs(arg[t]) IN
       IF v # <<>>
         THEN /\ Return(t, v[1])
              /\ UNCHANGED <<shared, history, local_state, snap, effects>>
         ELSE /\ Goto(t, "start_mkdir")
              /\ UNCHANGED <<shared, history, arg, built, local_state, joinIdx,
                             daemon_running, snap, effects>>

\* std::fs::create_dir_all(&config.workspace_dir)
StartMkdir(t) ==
  /\ pc[t] = "start_mkdir"
  /\ \/ /\ workspace' = workspace \cup {arg[t].data_dir}
        /\ effects' = [effects EXCEPT ![t] =
                         IF workspace' # workspace THEN @ \cup {"fs"} ELSE @]
        /\ Goto(t, "rt_get")
        /\ UNCHANGED <<daemon, lockHolder, poisoned, runtime, tasks, nextGen, health,
                       history, arg, built, local_state, joinIdx, daemon_running, snap>>
     \/ /\ Return(t, Err("ConfigError", "failed to create workspace dir"))
        /\ UNCHANGED <<shared, history, local_state, snap, effects>>

\* the check left out: start_daemon_inner never refuses
AlreadyInstalled_Never(slot) == FALSE

\* `if guard.is_some()` of start_daemon_inner (line 232)
AlreadyInstalled(slot) == IsSome(slot)

\* the guard dropped after the check and the mutex re-acquired only to store
StartGuard_Dropped(t) == <<>>

\* The holder of the mutex once start_daemon_inner has passed `guard.is_some()`.
StartGuard(t) == <<t>>

\* daemon_mutex().lock() and the `guard.is_some()` check (lines 226-236)
StartLock(t) ==
  /\ pc[t] = "start_lock"
  /\ LockFree
  /\ IF poisoned
       THEN /\ Return(t, StateCorrupted)
            /\ UNCHANGED <<shared, history, local_state, snap, effects>>
       ELSE /\ snap' = [snap EXCEPT ![t] = IF Len(daemon) > 0 THEN "some" ELSE "none"]
            /\ IF AlreadyInstalled(daemon)
                 THEN /\ Return(t, AlreadyRunning)
                      /\ UNCHANGED <<shared, history, local_state, effects>>
                 ELSE /\ lockHolder' = StartGuard(t)
                      /\ Goto(t, "start_spawn")
                      /\ UNCHANGED <<daemon, poisoned, runtime, tasks, nextGen, health,
                                     workspace, history, arg, built, local_state,
                                     joinIdx, daemon_running, effects>>

\* Some(tracker) only when cost tracking is enabled and CostTracker::new returned Ok
CostTrackerFor(enabled, built_ok) == enabled /\ built_ok

\* lines 238-345: best-effort cost tracker and memory, then block_on spawning
\* every supervised task; the DaemonState is built but not yet stored
StartSpawn(t, cost_ok, memory_ok) ==
  /\ pc[t] = "start_spawn"
  /\ LET config == ParseConfig(arg[t].config_toml)
           handles == HandlesFor(config)
       IN /\ (~config.cost_enabled => cost_ok)
          /\ tasks' = [tasks EXCEPT ![nextGen] =
                         [n \in TaskNames |-> IF n \in Range(handles) THEN "running" ELSE @[n]]]
          /\ health' = [health EXCEPT
                          !["daemon"] = HealthOk,
                          !["channels"] = IF has_supervised_channels(config) THEN @ ELSE HealthOk]
          /\ local_state' = [local_state EXCEPT ![t] =
                               << [gen |-> nextGen,
                                   handles |-> handles,
                                   gateway_port |-> arg[t].port,
                                   cost_tracker |-> CostTrackerFor(config.cost_enabled, cost_ok),
                                   config |-> arg[t].config_toml,
                                   memory |-> memory_ok] >>]
          /\ init_failed' = (IF config.cost_enabled /\ ~cost_ok THEN {"cost"} ELSE {})
                               \cup (IF memory_ok THEN {} ELSE {"memory"})
  /\ nextGen' = nextGen + 1
  /\ effects' = [effects EXCEPT ![t] = @ \cup {"tasks", "health"}]
  /\ Goto(t, "start_install")
  /\ UNCHANGED <<daemon, lockHolder, poisoned, runtime, workspace, okStarts, okStops, thrown,
                 arg, built, joinIdx, daemon_running, snap>>

\* a panic in CostTracker::new / create_memory while the guard is held:
\* the guard is dropped during unwinding and poisons the mutex
StartPanic(t, payload) ==
  /\ pc[t] = "start_spawn"
  /\ poisoned' = TRUE
  /\ lockHolder' = <<>>
  /\ Return(t, InternalPanic(payload))
  /\ thrown' = [thrown EXCEPT ![t] = payload]
  /\ UNCHANGED <<daemon, runtime, tasks, nextGen, health, workspace, okStarts, okStops, init_failed,
                 local_state, snap, effects>>

\* the built state dropped instead of stored
Install_Forgotten(state) == <<>>

\* the slot after `*guard = Some(DaemonState {..})`
Install(state) == state

\* *guard = Some(DaemonState {..}); Ok(())  (lines 347-357)
StartInstall(t) ==
  /\ pc[t] = "start_install"
  /\ daemon' = Install(local_state[t])
  /\ local_state' = [local_state EXCEPT ![t] = <<>>]
  /\ lockHolder' = <<>>
  /\ okStarts' = okStarts + 1
  /\ effects' = [effects EXCEPT ![t] = @ \cup {"slot"}]
  /\ Return(t, Ok(""))
  /\ UNCHANGED <<poisoned, runtime, tasks, nextGen, health, workspace, okStops,
                 init_failed, thrown, snap>>

\* ----------------------------------------------------- stop_daemon_inner
StopCall(t) == Enter(t, "stop_daemon", "rt_get", NoArgs)

\* daemon_mutex().lock() and guard.take() (lines 370-378)
StopLock(t) ==
  /\ pc[t] = "stop_lock"
  /\ LockFree
  /\ IF poisoned
       THEN /\ Return(t, StateCorrupted)
            /\ UNCHANGED <<shared, history, local_state, snap, effects>>
       ELSE /\ snap' = [snap EXCEPT ![t] = IF Len(daemon) > 0 THEN "some" ELSE "none"]
            /\ IF ~IsSome(daemon)
                 THEN /\ Return(t, NotRunning)
                      /\ UNCHANGED <<shared, history, local_state, effects>>
                 ELSE /\ local_state' = [local_state EXCEPT ![t] = daemon]
                      /\ daemon' = TakeLeaves(daemon)
                      /\ lockHolder' = <<t>>
                      /\ effects' = [effects EXCEPT ![t] = @ \cup {"slot"}]
                      /\ Goto(t, "stop_abort")
                      /\ UNCHANGED <<poisoned, runtime, tasks, nextGen, health, workspace,
                                     history, arg, built, joinIdx, daemon_running>>

\* the handle left alone
Abort_Skipped(status) == status

\* JoinHandle::abort on one task
Abort(status) == IF status = "running" THEN "aborting" ELSE status

\* for handle in &state.handles { handle.abort(); }
StopAbort(t) ==
  /\ pc[t] = "stop_abort"
  /\ LET state == local_state[t][1] IN
       tasks' = [tasks EXCEPT ![state.gen] =
                   [n \in TaskNames |-> IF n \in Range(state.handles) THEN Abort(@[n]) ELSE @[n]]]
  /\ joinIdx' = [joinIdx EXCEPT ![t] = 1]
  /\ effects' = [effects EXCEPT ![t] = @ \cup {"tasks"}]
  /\ Goto(t, "stop_join")
  /\ UNCHANGED <<daemon, lockHolder, poisoned, runtime, nextGen, health, workspace,
                 history, arg, built, local_state, daemon_running, snap>>

\* the handles dropped without being awaited
JoinReady_NoWait(status) == TRUE

\* `handle.await` completes once the task has terminated
JoinReady(status) == status = "done"

\* runtime.block_on(async { for handle in state.handles { let _ = handle.await; } })
StopJoin(t) ==
  /\ pc[t] = "stop_join"
  /\ LET state == local_state[t][1] IN
       /\ JoinReady(tasks[state.gen][state.handles[joinIdx[t]]])
       /\ IF joinIdx[t] = Len(state.handles)
            THEN Goto(t, "stop_mark")
            ELSE Goto(t, "stop_join")
  /\ joinIdx' = [joinIdx EXCEPT ![t] = @ + 1]
  /\ UNCHANGED <<shared, history, arg, built, local_state, daemon_running, snap, effects>>

\* mark_component_error("daemon", "shutdown requested"); Ok(()) -- the guard is
\* dropped only here, at the end of the function
StopFinish(t) ==
  /\ pc[t] = "stop_mark"
  /\ health' = [health EXCEPT !["daemon"] = HealthError("shutdown requested")]
  /\ local_state' = [local_state EXCEPT ![t] = <<>>]
  /\ lockHolder' = <<>>
  /\ okStops' = okStops + 1
  /\ effects' = [effects EXCEPT ![t] = @ \cup {"health"}]
  /\ Return(t, Ok(""))
  /\ UNCHANGED <<daemon, poisoned, runtime, tasks, nextGen, workspace, okStarts,
                 init_failed, thrown, snap>>

\* ------------------------------------------------------ supervised tasks
\* record_event and the on_event it calls are synchronous: the heartbeat task
\* is at no suspension point while its worker thread is inside them.
AtSuspensionPoint(n) == n = "heartbeat" => epc[HeartbeatWorker] = "idle"

\* An aborted task is cancelled at its next suspension point.
TaskTerminate(g, n) ==
  /\ tasks[g][n] = "aborting"
  /\ AtSuspensionPoint(n)
  /\ tasks' = [tasks EXCEPT ![g][n] = "done"]
  /\ UNCHANGED <<daemon, lockHolder, poisoned, runtime, nextGen, health, workspace,
                 pc, op, ret, arg, built, local_state, joinIdx, daemon_running,
                 snap, effects, history, offCall>>

\* ------------------------------------------- spawn_component_supervisor
\* The DaemonState that tracks the tasks of generation g.
StateOfGen(g) ==
  LET held == { daemon[i] : i \in 1..Len(daemon) }
                \cup UNION { { local_state[t][i] : i \in 1..Len(local_state[t]) } : t \in Callers }
  IN CHOOSE st \in held : st.gen = g

\* initial_backoff / max_backoff as start_daemon_inner passes them (lines 238-242)
SupervisorParams(config) ==
  LET initial_backoff == Max(config.channel_initial_backoff_secs, 1)
  IN [initial_backoff_secs |-> initial_backoff,
      max_backoff_secs |-> Max(config.channel_max_backoff_secs, initial_backoff)]

\* the loop left after one round
LoopBack_Exit == "exited"

\* `loop { .. }`: the position after the sleep is the top of the loop
LoopBack == "attempt"

\* the restart counter left alone
BumpRestart_Skipped(bumps) == bumps

\* zeroclaw::health::bump_component_restart(name), called once  (line 588)
BumpRestart(bumps) == bumps + 1

\* the backoff kept as it is after a clean exit
ResetBackoff_Keep(backoff, initial_backoff_secs) == backoff

\* backoff = initial_backoff_secs.max(1)  (line 580)
ResetBackoff(backoff, initial_backoff_secs) == Max(initial_backoff_secs, 1)

\* the doubling without the ceiling
NextBackoff_Uncapped(backoff, max_backoff) == SaturatingDouble(backoff)

\* backoff = backoff.saturating_mul(2).min(max_backoff)  (line 590)
NextBackoff(backoff, max_backoff) == Min(SaturatingDouble(backoff), max_backoff)

SupAlive(g) == sup.gen = g /\ tasks[g][SupervisedName] = "running"

SupFrame == UNCHANGED <<shared, history, pc, op, ret, arg, built, local_state, joinIdx,
                        daemon_running, snap, effects, evVars, calc, writer>>

\* the spawned task starts: lines 571-575, up to the first run_component().await
SupBegin(g) ==
  /\ tasks[g][SupervisedName] = "running"
  /\ sup.gen # g
  /\ LET p == SupervisorParams(ParseConfig(StateOfGen(g).config))
         backoff == Max(p.initial_backoff_secs, 1)
     IN sup' = [gen |-> g, pc |-> "attempt",
                initial_backoff_secs |-> p.initial_backoff_secs,
                max_backoff_secs |-> p.max_backoff_secs,
                backoff |-> backoff,
                max_backoff |-> Max(p.max_backoff_secs, backoff),
                health |-> HealthOk,
                restart_bumps |-> 0]
  /\ sup_hist' = [NoSupHist EXCEPT !.config = StateOfGen(g).config]
  /\ SupFrame

\* run_component() returned Ok(()): lines 577-581 and 588, up to the sleep
SupAttemptOk(g) ==
  /\ SupAlive(g) /\ sup.pc = "attempt"
  /\ sup_hist.iteration < MaxRestarts
  /\ LET backoff == ResetBackoff(sup.backoff, sup.initial_backoff_secs)
     IN /\ sup' = [sup EXCEPT !.pc = "sleep", !.backoff = backoff,
                              !.health = HealthError("component exited unexpectedly"),
                              !.restart_bumps = BumpRestart(@)]
        /\ sup_hist' = [iteration |-> sup_hist.iteration + 1, slept |-> backoff,
                        prev_slept |-> sup_hist.slept, all_errors |-> FALSE,
                        last |-> "ok", config |-> sup_hist.config]
  /\ SupFrame

\* run_component() returned Err(e): lines 582-585 and 588, up to the sleep
SupAttemptErr(g) ==
  /\ SupAlive(g) /\ sup.pc = "attempt"
  /\ sup_hist.iteration < MaxRestarts
  /\ sup' = [sup EXCEPT !.pc = "sleep", !.health = HealthError("attempt failed"),
                        !.restart_bumps = BumpRestart(@)]
  /\ sup_hist' = [sup_hist EXCEPT !.iteration = @ + 1, !.slept = sup.backoff,
                                  !.prev_slept = sup_hist.slept, !.last = "err"]
  /\ SupFrame

\* the sleep is over: line 590, then mark_component_ok at the top of the loop
SupSleepDone(g) ==
  /\ SupAlive(g) /\ sup.pc = "sleep"
  /\ sup' = [sup EXCEPT !.pc = LoopBack,
                        !.backoff = NextBackoff(sup.backoff, sup.max_backoff),
                        !.health = HealthOk]
  /\ UNCHANGED sup_hist
  /\ SupFrame

\* ------------------------------------------------------ spawn_state_writer
WriterFrame == UNCHANGED <<shared, history, pc, op, ret, arg, built, local_state, joinIdx,
                           daemon_running, snap, effects, sup, sup_hist, evVars, calc>>

\* interval.tick().await returns in the state writer of generation g: the
\* snapshot is serialised and tokio::fs::write hands std::fs::write to the
\* blocking pool; the task awaits the result  (lines 533-550)
StateWriterTick(g) ==
  /\ tasks[g]["state_writer"] = "running"
  /\ g \notin writer.in_flight
  /\ writer' = [writer EXCEPT !.in_flight = @ \cup {g}]
  /\ WriterFrame

\* the write dropped together with the task that awaits it
WriteSurvivesAbort_Cancelled(g) == tasks[g]["state_writer"] = "running"

\* A closure running on the blocking pool is not cancelled when the task
\* awaiting it is aborted: the write runs to its end.
WriteSurvivesAbort(g) == TRUE

\* std::fs::write finishes on the blocking pool: the file holds the snapshot
\* of generation g  (line 550)
BlockingWriteDone(g) ==
  /\ g \in writer.in_flight
  /\ WriteSurvivesAbort(g)
  /\ writer' = [file |-> g, in_flight |-> writer.in_flight \ {g}]
  /\ WriterFrame

\* ---------------------------------- get_status_inner / is_daemon_running
StatusOps == {"get_status", "get_health_detail"}

StatusCall(t, name) == Enter(t, name, "status_lock", NoArgs)

\* lock; `guard.is_some()`; the guard is dropped before the health snapshot
StatusLock(t) ==
  /\ pc[t] = "status_lock"
  /\ LockFree
  /\ IF poisoned
       THEN /\ Return(t, StateCorrupted)
            /\ UNCHANGED <<shared, history, local_state, snap, effects>>
       ELSE /\ snap' = [snap EXCEPT ![t] = IF Len(daemon) > 0 THEN "some" ELSE "none"]
            /\ daemon_running' = [daemon_running EXCEPT ![t] = ReportRunning(daemon)]
            /\ Goto(t, "status_snapshot")
            /\ UNCHANGED <<shared, history, arg, built, local_state, joinIdx, effects>>

\* zeroclaw::health::snapshot_json() and the record carrying daemon_running
StatusReturn(t) ==
  /\ pc[t] = "status_snapshot"
  /\ Return(t, Ok(daemon_running[t]))
  /\ UNCHANGED <<shared, history, local_state, snap, effects>>

\* ------------------------------------------------------ with_cost_tracker
CostCall(t) == Enter(t, "get_cost_summary", "cost_lock", NoArgs)

\* a tracker handed out whether or not the state holds one
TrackerAvailable_Always(state) == TRUE

\* `state.cost_tracker.as_ref()` is Some
TrackerAvailable(state) == state.cost_tracker

\* lock, `guard.as_ref()`, `state.cost_tracker.as_ref()` (lines 75-88)
CostLock(t) ==
  /\ pc[t] = "cost_lock"
  /\ LockFree
  /\ IF poisoned
       THEN /\ Return(t, StateCorrupted)
            /\ UNCHANGED <<shared, history, local_state, snap, effects>>
       ELSE /\ snap' = [snap EXCEPT ![t] = IF Len(daemon) > 0 THEN "some" ELSE "none"]
            /\ IF ~IsSome(daemon)
                 THEN /\ Return(t, NotRunning)
                      /\ UNCHANGED <<shared, history, local_state, effects>>
                 ELSE IF ~TrackerAvailable(daemon[1])
                 THEN /\ Return(t, Err("StateError", "cost tracking not enabled"))
                      /\ UNCHANGED <<shared, history, local_state, effects>>
                 ELSE /\ lockHolder' = <<t>>
                      /\ Goto(t, "cost_call")
                      /\ UNCHANGED <<daemon, poisoned, runtime, tasks, nextGen, health,
                                     workspace, history, arg, built, local_state,
                                     joinIdx, daemon_running, effects>>

\* f(tracker).map_err(SpawnError), evaluated while `guard` is still alive
CostReturn(t) ==
  /\ pc[t] = "cost_call"
  /\ lockHolder' = <<>>
  /\ \E r \in {Ok("cost"), Err("SpawnError", "tracker failure")} : Return(t, r)
  /\ UNCHANGED <<daemon, poisoned, runtime, tasks, nextGen, health, workspace,
                 history, local_state, snap, effects>>

\* the tracker call panics: the guard is dropped by the unwind and poisons the mutex
CostPanic(t, payload) ==
  /\ pc[t] = "cost_call"
  /\ poisoned' = TRUE
  /\ lockHolder' = <<>>
  /\ Return(t, InternalPanic(payload))
  /\ thrown' = [thrown EXCEPT ![t] = payload]
  /\ UNCHANGED <<daemon, runtime, tasks, nextGen, health, workspace,
                 okStarts, okStops, init_failed, local_state, snap, effects>>

\* ----------------------------------------------------- with_daemon_config
\* cron.rs passes the whole zeroclaw::cron call as the closure; skills.rs and
\* tools_browse.rs pass a closure that only clones fields of the config.
CronOps == {"list_cron_jobs", "add_cron_job"}
ConfigCloneOps == {"list_skills", "list_tools"}

ConfigCall(t, name) == Enter(t, name, "config_lock", NoArgs)

\* lock and `guard.as_ref()` (lines 98-105)
ConfigLock(t) ==
  /\ pc[t] = "config_lock"
  /\ LockFree
  /\ IF poisoned
       THEN /\ Return(t, StateCorrupted)
            /\ UNCHANGED <<shared, history, local_state, snap, effects>>
       ELSE /\ snap' = [snap EXCEPT ![t] = IF Len(daemon) > 0 THEN "some" ELSE "none"]
            /\ IF ~IsSome(daemon)
                 THEN /\ Return(t, NotRunning)
                      /\ UNCHANGED <<shared, history, local_state, effects>>
                 ELSE IF op[t] \in CronOps
                 THEN /\ lockHolder' = <<t>>
                      /\ Goto(t, "cron_call")
                      /\ UNCHANGED <<daemon, poisoned, runtime, tasks, nextGen, health,
                                     workspace, history, arg, built, local_state,
                                     joinIdx, daemon_running, effects>>
                 ELSE /\ Goto(t, "skills_load")
                      /\ UNCHANGED <<shared, history, arg, built, local_state,
                                     joinIdx, daemon_running, effects>>

\* Ok(f(&state.config)) with f the zeroclaw::cron call, under the guard
CronReturn(t) ==
  /\ pc[t] = "cron_call"
  /\ lockHolder' = <<>>
  /\ \E r \in {Ok("jobs"), Err("SpawnError", "cron failure")} : Return(t, r)
  /\ UNCHANGED <<daemon, poisoned, runtime, tasks, nextGen, health, workspace,
                 history, local_state, snap, effects>>

\* the cron call panics under the guard
CronPanic(t, payload) ==
  /\ pc[t] = "cron_call"
  /\ poisoned' = TRUE
  /\ lockHolder' = <<>>
  /\ Return(t, InternalPanic(payload))
  /\ thrown' = [thrown EXCEPT ![t] = payload]
  /\ UNCHANGED <<daemon, runtime, tasks, nextGen, health, workspace,
                 okStarts, okStops, init_failed, local_state, snap, effects>>

\* zeroclaw::skills::load_skills(&workspace_dir), after with_daemon_config returned
SkillsReturn(t) ==
  /\ pc[t] = "skills_load"
  /\ Return(t, Ok("skills"))
  /\ UNCHANGED <<shared, history, local_state, snap, effects>>

\* ------------------------------------------------------------ with_memory
MemoryCall(t) == Enter(t, "list_memories", "mem_lock", NoArgs)

\* the block that locks, checks and clones the Arc (lines 126-138)
MemoryLock(t) ==
  /\ pc[t] = "mem_lock"
  /\ LockFree
  /\ IF poisoned
       THEN /\ Return(t, StateCorrupted)
            /\ UNCHANGED <<shared, history, local_state, snap, effects>>
       ELSE /\ snap' = [snap EXCEPT ![t] = IF Len(daemon) > 0 THEN "some" ELSE "none"]
            /\ IF ~IsSome(daemon)
                 THEN /\ Return(t, NotRunning)
                      /\ UNCHANGED <<shared, history, local_state, effects>>
                 ELSE IF ~daemon[1].memory
                 THEN /\ Return(t, Err("StateError", "memory backend not available"))
                      /\ UNCHANGED <<shared, history, local_state, effects>>
                 ELSE /\ Goto(t, "rt_get")
                      /\ UNCHANGED <<shared, history, arg, built, local_state,
                                     joinIdx, daemon_running, effects>>

\* f(memory_arc.as_ref(), runtime): handle.block_on(memory.list(..))
MemoryReturn(t) ==
  /\ pc[t] = "mem_call"
  /\ \E r \in {Ok("entries"), Err("SpawnError", "memory list failed")} : Return(t, r)
  /\ UNCHANGED <<shared, history, local_state, snap, effects>>

\* ----------------------------------------------------- send_message_inner
SendCall(t, len) == Enter(t, "send_message", "send_validate", [NoArgs EXCEPT !.msg_len = len])

\* message.len() > MAX_MESSAGE_BYTES
SendValidate(t) ==
  /\ pc[t] = "send_validate"
  /\ IF arg[t].msg_len > MAX_MESSAGE_BYTES
       THEN /\ Return(t, Err("ConfigError", "message too large"))
            /\ UNCHANGED <<shared, history, local_state, snap, effects>>
       ELSE /\ Goto(t, "rt_get")
            /\ UNCHANGED <<shared, history, arg, built, local_state, joinIdx,
                           daemon_running, snap, effects>>

\* the block that locks and reads gateway_port (lines 449-461)
SendLock(t) ==
  /\ pc[t] = "send_lock"
  /\ LockFree
  /\ IF poisoned
       THEN /\ Return(t, StateCorrupted)
            /\ UNCHANGED <<shared, history, local_state, snap, effects>>
       ELSE /\ snap' = [snap EXCEPT ![t] = IF Len(daemon) > 0 THEN "some" ELSE "none"]
            /\ IF ~IsSome(daemon)
                 THEN /\ Return(t, NotRunning)
                      /\ UNCHANGED <<shared, history, local_state, effects>>
                 ELSE /\ arg' = [arg EXCEPT ![t].port = daemon[1].gateway_port]
                      /\ Goto(t, "send_http")
                      /\ UNCHANGED <<shared, history, built, local_state,
                                     joinIdx, daemon_running, effects>>

\* runtime.block_on(POST http://127.0.0.1:{gateway_port}/webhook)
SendReturn(t) ==
  /\ pc[t] = "send_http"
  /\ \E r \in {Ok("response"), Err("SpawnError", "gateway request failed")} : Return(t, r)
  /\ UNCHANGED <<shared, history, local_state, snap, effects>>

\* ------------------------------------------------------------ events.rs
\* What no step of the event bridge writes.
EvFrame == UNCHANGED <<shared, history, pc, op, ret, arg, built, local_state, joinIdx,
                       daemon_running, snap, effects, sup, sup_hist, calc, writer>>

\* The thread leaves its current call; a call made from inside on_event
\* returns into the callback, which returns into record_event, which returns.
EvReturn(t) ==
  /\ epc' = [epc EXCEPT ![t] = "idle"]
  /\ eid' = [eid EXCEPT ![t] = -1]
  /\ maybe_listener' = [maybe_listener EXCEPT ![t] = <<>>]
  /\ earg' = [earg EXCEPT ![t] = NoEventArg]
  /\ in_callback' = [in_callback EXCEPT ![t] = FALSE]

EvGoto(t, next) ==
  /\ epc' = [epc EXCEPT ![t] = next]
  /\ UNCHANGED <<eid, maybe_listener, earg, in_callback>>

\* the callback handed to another thread and still running when
\* record_event carries on
AfterOnEvent_Detached(call) == call

\* `listener.on_event(json);` (line 89) is a plain call: record_event carries
\* on only once the callback has returned
AfterOnEvent(call) == [call EXCEPT !.state = "returned"]

\* History: the call of t that ends in this step returns into the on_event
\* that made it, if any, and that callback returns into record_event.
CallbackReturns(t) ==
  on_event_calls' =
    IF t \in DOMAIN on_event_calls /\ in_callback[t]
      THEN [on_event_calls EXCEPT ![t] = [@ EXCEPT ![Len(@)] = AfterOnEvent(@)]]
      ELSE on_event_calls

\* History: the call of t that ends in this step was no register / unregister.
Forget(t) ==
  /\ since' = [since EXCEPT ![t] = {}]
  /\ UNCHANGED settled
  /\ CallbackReturns(t)

\* The call of t returns r to the foreign thread; the result of a call made
\* from inside on_event is consumed by the callback.
EvResult(t, r) == eret' = [eret EXCEPT ![t] = IF in_callback[t] THEN @ ELSE r]

\* History: the register / unregister call of t returns, having asked for v.
Settle(t, v) ==
  /\ settled' = v
  /\ since' = [u \in EventThreads |->
                IF u = t THEN {}
                ELSE IF eid[u] # -1 THEN since[u] \cup {v} ELSE since[u]]
  /\ CallbackReturns(t)

\* the listener looked up first, the buffering left out
AfterFormat_DeliverFirst == "rec_lis_lock"

\* What record_event does once the id is taken and the JSON rendered: it
\* buffers the event (lines 74-80) before it looks at the listener (84-90).
AfterFormat == "rec_buf_lock"

\* record_event, line 71: the id is taken from the counter
RecordBegin(t) ==
  /\ epc[t] = "idle"
  /\ quota[t] > 0
  /\ quota' = [quota EXCEPT ![t] = @ - 1]
  /\ eid' = [eid EXCEPT ![t] = event_counter]
  /\ event_counter' = FetchAdd(event_counter)
  /\ issued' = Append(issued, event_counter)
  /\ epc' = [epc EXCEPT ![t] = AfterFormat]
  /\ UNCHANGED <<event_buffer, listener, buf_lock, lis_lock, maybe_listener, earg,
                 eresult, in_callback, pushed>>
  /\ since' = [since EXCEPT ![t] = {settled}]
  /\ UNCHANGED <<settled, on_event_calls>>
  /\ UNCHANGED <<lis_poisoned, eret>>
  /\ EvFrame

\* the metric buffered like an event
MetricBuffered_Pushed(buf) == Append(buf, format_event_json(-1, "metric"))

\* The ring buffer after record_metric (lines 93-95): the body is empty.
MetricBuffered(buf) == buf

\* record_metric: the whole call; it takes no lock, reads no global and returns
RecordMetric(t) ==
  /\ epc[t] = "idle"
  /\ quota[t] > 0
  /\ quota' = [quota EXCEPT ![t] = @ - 1]
  /\ event_buffer' = MetricBuffered(event_buffer)
  /\ UNCHANGED <<event_counter, listener, buf_lock, lis_lock, epc, eid, maybe_listener,
                 earg, eresult, in_callback, issued, pushed, settled, since,
                 on_event_calls>>
  /\ UNCHANGED <<lis_poisoned, eret>>
  /\ EvFrame

\* event_buffer().lock()  (line 75)
RecordBufLock(t) ==
  /\ epc[t] = "rec_buf_lock"
  /\ buf_lock = <<>>
  /\ buf_lock' = <<t>>
  /\ EvGoto(t, "rec_push")
  /\ UNCHANGED <<event_counter, event_buffer, listener, lis_lock, eresult, quota,
                 issued, pushed>>
  /\ UNCHANGED <<settled, since, on_event_calls>>
  /\ UNCHANGED <<lis_poisoned, eret>>
  /\ EvFrame

\* lines 76-80: evict when full, push, drop the guard
RecordPush(t) ==
  /\ epc[t] = "rec_push"
  /\ LET json == format_event_json(eid[t], "heartbeat_tick") IN
       /\ event_buffer' = PushBounded(event_buffer, json)
       /\ pushed' = Append(pushed, json)
  /\ buf_lock' = <<>>
  /\ EvGoto(t, "rec_lis_lock")
  /\ UNCHANGED <<event_counter, listener, lis_lock, eresult, quota, issued>>
  /\ UNCHANGED <<settled, since, on_event_calls>>
  /\ UNCHANGED <<lis_poisoned, eret>>
  /\ EvFrame

\* listener_slot().lock().ok()  (lines 84-86): a poisoned mutex yields None,
\* and record_event returns without a delivery
RecordLisLock(t) ==
  /\ epc[t] = "rec_lis_lock"
  /\ lis_lock = <<>>
  /\ IF lis_poisoned
       THEN /\ EvReturn(t)
            /\ Forget(t)
            /\ UNCHANGED lis_lock
       ELSE /\ lis_lock' = <<t>>
            /\ EvGoto(t, "rec_snapshot")
            /\ UNCHANGED <<settled, since, on_event_calls>>
  /\ UNCHANGED <<event_counter, event_buffer, listener, buf_lock, eresult, quota,
                 issued, pushed, lis_poisoned, eret>>
  /\ EvFrame

\* the guard kept alive across the callback
AfterSnapshot_Held(t) == <<t>>

\* The holder of the LISTENER mutex once `maybe_listener` is bound: the guard
\* was moved into the closure of and_then and dropped at its end.
AfterSnapshot(t) == <<>>

\* a reference to listener "A" handed out whatever the slot holds
CloneListener_Stale(slot) == <<"A">>

\* guard.as_ref().map(Arc::clone)  (line 87): None for an empty slot
CloneListener(slot) == slot

\* lines 86-88: clone the Arc out of the slot; without a listener record_event returns
RecordSnapshot(t) ==
  /\ epc[t] = "rec_snapshot"
  /\ lis_lock' = AfterSnapshot(t)
  /\ LET cloned == CloneListener(listener) IN
       IF cloned = <<>>
         THEN /\ EvReturn(t)
              /\ Forget(t)
         ELSE /\ maybe_listener' = [maybe_listener EXCEPT ![t] = cloned]
              /\ epc' = [epc EXCEPT ![t] = "on_event"]
              /\ UNCHANGED <<eid, earg, in_callback>>
              /\ UNCHANGED <<settled, since, on_event_calls>>
  /\ UNCHANGED <<event_counter, event_buffer, listener, buf_lock, eresult, quota,
                 issued, pushed>>
  /\ UNCHANGED <<lis_poisoned, eret>>
  /\ EvFrame

\* History: on_event is invoked on listener l with the event id; the
\* invocation is added to those of thread t.
OnEventCall(id, l) == [id |-> id, listener |-> l, state |-> "running"]
Invoke(t, call) ==
  IF t \in DOMAIN on_event_calls
    THEN [on_event_calls EXCEPT ![t] = Append(@, call)]
    ELSE on_event_calls

\* listener.on_event(json) of a listener that returns at once
OnEventPlain(t) ==
  /\ epc[t] = "on_event"
  /\ maybe_listener[t][1] \notin ReentrantListeners \cup StatusListeners
  /\ EvReturn(t)
  /\ UNCHANGED <<event_counter, event_buffer, listener, buf_lock, lis_lock, eresult,
                 quota, issued, pushed>>
  /\ since' = [since EXCEPT ![t] = {}]
  /\ UNCHANGED settled
  /\ on_event_calls' = Invoke(t, AfterOnEvent(OnEventCall(eid[t], maybe_listener[t][1])))
  /\ UNCHANGED <<lis_poisoned, eret>>
  /\ EvFrame

\* listener.on_event(json) of a listener that calls back into the crate
OnEventReenter(t, call) ==
  /\ epc[t] = "on_event"
  /\ maybe_listener[t][1] \in ReentrantListeners
  /\ in_callback' = [in_callback EXCEPT ![t] = TRUE]
  /\ earg' = [earg EXCEPT ![t] = call.arg]
  /\ epc' = [epc EXCEPT ![t] = call.first]
  /\ UNCHANGED <<event_counter, event_buffer, listener, buf_lock, lis_lock, eid,
                 maybe_listener, eresult, quota, issued, pushed>>
  /\ UNCHANGED <<settled, since>>
  /\ on_event_calls' = Invoke(t, OnEventCall(eid[t], maybe_listener[t][1]))
  /\ UNCHANGED <<lis_poisoned, eret>>
  /\ EvFrame

\* listener.on_event(json) of a listener that calls get_status
OnEventStatus(t) ==
  /\ epc[t] = "on_event"
  /\ maybe_listener[t][1] \in StatusListeners
  /\ in_callback' = [in_callback EXCEPT ![t] = TRUE]
  /\ epc' = [epc EXCEPT ![t] = "cb_status_lock"]
  /\ UNCHANGED <<event_counter, event_buffer, listener, buf_lock, lis_lock, eid,
                 maybe_listener, earg, eresult, quota, issued, pushed>>
  /\ UNCHANGED <<settled, since>>
  /\ on_event_calls' = Invoke(t, OnEventCall(eid[t], maybe_listener[t][1]))
  /\ UNCHANGED <<lis_poisoned, eret>>
  /\ EvFrame

\* get_status_inner called from inside on_event (runtime.rs, lines 405-412):
\* daemon_mutex().lock() blocks while another thread holds the mutex; the guard
\* is dropped right after the read, the status returns into the callback, the
\* callback into record_event.
CallbackStatusLock(t) ==
  /\ epc[t] = "cb_status_lock"
  /\ LockFree
  /\ EvReturn(t)
  /\ Forget(t)
  /\ UNCHANGED <<event_counter, event_buffer, listener, buf_lock, lis_lock, eresult,
                 quota, issued, pushed, lis_poisoned, eret>>
  /\ EvFrame

\* The heartbeat task of generation g, while it runs, records an event.
HeartbeatRecord(g) ==
  /\ tasks[g]["heartbeat"] = "running"
  /\ RecordBegin(HeartbeatWorker)

\* A foreign thread enters register_event_listener, unregister_event_listener
\* or get_recent_events.
EventCall(t, first, a) ==
  /\ epc[t] = "idle"
  /\ epc' = [epc EXCEPT ![t] = first]
  /\ earg' = [earg EXCEPT ![t] = a]
  /\ UNCHANGED <<event_counter, event_buffer, listener, buf_lock, lis_lock, eid,
                 maybe_listener, eresult, in_callback, quota, issued, pushed>>
  /\ UNCHANGED <<settled, since, on_event_calls>>
  /\ eret' = [eret EXCEPT ![t] = NoRet]
  /\ UNCHANGED lis_poisoned
  /\ EvFrame

RegisterCall(t, l) == EventCall(t, "reg_lock", [listener |-> l, limit |-> 0])
UnregisterCall(t) == EventCall(t, "unreg_lock", NoEventArg)
RecentCall(t, limit) == EventCall(t, "recent_lock", [listener |-> "", limit |-> limit])

ListenerPoisoned == Err("StateCorrupted", "event listener mutex poisoned")

\* listener_slot().lock() of register / unregister (lines 113-117, 126-130)
ListenerLock(t) ==
  /\ epc[t] \in {"reg_lock", "unreg_lock"}
  /\ lis_lock = <<>>
  /\ IF lis_poisoned
       THEN /\ EvReturn(t)
            /\ EvResult(t, ListenerPoisoned)
            /\ Forget(t)
            /\ UNCHANGED lis_lock
       ELSE /\ lis_lock' = <<t>>
            /\ EvGoto(t, IF epc[t] = "reg_lock" THEN "reg_store" ELSE "unreg_store")
            /\ UNCHANGED <<settled, since, on_event_calls, eret>>
  /\ UNCHANGED <<event_counter, event_buffer, listener, buf_lock, eresult, quota,
                 issued, pushed, lis_poisoned>>
  /\ EvFrame

\* the first listener kept
Registered_KeepFirst(slot, l) == IF slot = <<>> THEN <<l>> ELSE slot

\* `*slot = Some(listener)` (line 118): the slot after register; what it held
\* before is dropped.
Registered(slot, l) == <<l>>

\* *slot = Some(listener); Ok(())
RegisterStore(t) ==
  /\ epc[t] = "reg_store"
  /\ listener' = Registered(listener, earg[t].listener)
  /\ lis_lock' = <<>>
  /\ EvReturn(t)
  /\ UNCHANGED <<event_counter, event_buffer, buf_lock, eresult, quota, issued, pushed>>
  /\ Settle(t, <<earg[t].listener>>)
  /\ EvResult(t, Ok(""))
  /\ UNCHANGED lis_poisoned
  /\ EvFrame

\* the slot left as it was
Unregistered_Kept(slot) == slot

\* `*slot = None` (line 131): the slot after unregister
Unregistered(slot) == <<>>

\* *slot = None; Ok(())
UnregisterStore(t) ==
  /\ epc[t] = "unreg_store"
  /\ listener' = Unregistered(listener)
  /\ lis_lock' = <<>>
  /\ EvReturn(t)
  /\ UNCHANGED <<event_counter, event_buffer, buf_lock, eresult, quota, issued, pushed>>
  /\ Settle(t, <<>>)
  /\ EvResult(t, Ok(""))
  /\ UNCHANGED lis_poisoned
  /\ EvFrame

\* Listeners whose Drop panics.
PanickingDrops == {"A"}

\* `*slot = ...` of register / unregister when the value replaced is the last
\* reference to a listener whose Drop panics: the new value is in the slot, the
\* guard is dropped while unwinding and poisons the mutex, and catch_unwind
\* turns the panic into InternalPanic.
StoreDropPanic(t, payload) ==
  /\ epc[t] \in {"reg_store", "unreg_store"}
  /\ listener # <<>>
  /\ listener[1] \in PanickingDrops
  /\ \A u \in EventThreads : maybe_listener[u] # listener
  /\ LET new == IF epc[t] = "reg_store" THEN Registered(listener, earg[t].listener)
                ELSE Unregistered(listener) IN
       /\ listener' = new
       /\ Settle(t, new)
  /\ lis_lock' = <<>>
  /\ lis_poisoned' = TRUE
  /\ EvReturn(t)
  /\ EvResult(t, InternalPanic(payload))
  /\ UNCHANGED <<event_counter, event_buffer, buf_lock, eresult, quota, issued, pushed>>
  /\ EvFrame

\* event_buffer().lock() of get_recent_events_inner (lines 140-144)
RecentLock(t) ==
  /\ epc[t] = "recent_lock"
  /\ buf_lock = <<>>
  /\ buf_lock' = <<t>>
  /\ EvGoto(t, "recent_read")
  /\ UNCHANGED <<event_counter, event_buffer, listener, lis_lock, eresult, quota,
                 issued, pushed>>
  /\ UNCHANGED <<settled, since, on_event_calls>>
  /\ UNCHANGED <<lis_poisoned, eret>>
  /\ EvFrame

\* lines 145-147: the window joined into the JSON array; the guard is dropped.
\* (A callback drops the array before it returns into record_event.)
RecentRead(t) ==
  /\ epc[t] = "recent_read"
  /\ eresult' = [eresult EXCEPT ![t] =
                   IF in_callback[t] THEN <<>>
                   ELSE RecentWindow(event_buffer, earg[t].limit)]
  /\ buf_lock' = <<>>
  /\ EvReturn(t)
  /\ UNCHANGED <<event_counter, event_buffer, listener, lis_lock, quota, issued, pushed>>
  /\ Forget(t)
  /\ EvResult(t, Ok(""))
  /\ UNCHANGED lis_poisoned
  /\ EvFrame

\* ---------------------------------------------------------- specification
ValidArgs ==
  { [data_dir |-> <<"/", "d">>, host |-> <<"h", "1">>, config_toml |-> "minimal",
     port |-> 8080, msg_len |-> 0],
    [data_dir |-> <<"/", "d">>, host |-> <<"h", "1">>, config_toml |-> "full",
     port |-> 9090, msg_len |-> 0] }

\* start_daemon arguments: every valid tuple, tuples with one invalid field, and
\* one with an invalid data_dir and an invalid host
StartArgs ==
  ValidArgs
    \cup [data_dir : DataDirs, host : {<<"h", "1">>}, config_toml : {"minimal"},
          port : {8080}, msg_len : {0}]
    \cup [data_dir : {<<"/", "d">>}, host : Hosts, config_toml : {"minimal"},
          port : {8080}, msg_len : {0}]
    \cup [data_dir : {<<"/", "d">>}, host : {<<"h", "1">>}, config_toml : ConfigTexts,
          port : {8080}, msg_len : {0}]
    \cup [data_dir : {<<"d">>}, host : {<<>>}, config_toml : {"minimal"},
          port : {8080}, msg_len : {0}]

\* The steps every specification shares: the runtime singleton, the bodies of
\* start_daemon_inner and stop_daemon_inner, and the supervised tasks.
\* InitOutcomes: the outcomes <<cost tracker built, memory backend built>> of the
\* best-effort initialisation that the specification lets happen.
\* Payloads: the payloads of the panics that it lets happen during the spawn.
LifecycleSteps(InitOutcomes, Payloads) ==
  \/ \E t \in Callers : StartValidate(t)
  \/ \E t \in Callers : StartMkdir(t)
  \/ \E t \in Callers : RuntimeGet(t)
  \/ \E t \in Callers : RuntimeSet(t)
  \/ \E t \in Callers : StartLock(t)
  \/ \E t \in Callers, o \in InitOutcomes : StartSpawn(t, o[1], o[2])
  \/ \E t \in Callers, payload \in Payloads : StartPanic(t, payload)
  \/ \E t \in Callers : StartInstall(t)
  \/ \E t \in Callers : StopLock(t)
  \/ \E t \in Callers : StopAbort(t)
  \/ \E t \in Callers : StopJoin(t)
  \/ \E t \in Callers : StopFinish(t)
  \/ \E g \in Gens, n \in TaskNames : TaskTerminate(g, n)

\* Start, Stop and status reads from every caller thread.
Next ==
  \/ \E t \in Callers, a \in StartArgs : StartCall(t, a)
  \/ \E t \in Callers : StopCall(t)
  \/ \E t \in Callers, name \in StatusOps : StatusCall(t, name)
  \/ \E t \in Callers : StatusLock(t)
  \/ \E t \in Callers : StatusReturn(t)
  \/ LifecycleSteps({<<TRUE, TRUE>>}, {StrPayload})

Spec == Init /\ [][Next]_vars

\* One thread drives the lifecycle while the other issues the queries that
\* require a running daemon.
LifecycleCaller == "t1"
QueryCaller == "t2"

NextQuery ==
  \/ \E a \in ValidArgs : StartCall(LifecycleCaller, a)
  \/ StopCall(LifecycleCaller)
  \/ CostCall(QueryCaller)
  \/ CostLock(QueryCaller)
  \/ CostReturn(QueryCaller)
  \/ \E payload \in PanicPayloads : CostPanic(QueryCaller, payload)
  \/ \E name \in CronOps \cup ConfigCloneOps : ConfigCall(QueryCaller, name)
  \/ ConfigLock(QueryCaller)
  \/ CronReturn(QueryCaller)
  \/ \E payload \in PanicPayloads : CronPanic(QueryCaller, payload)
  \/ SkillsReturn(QueryCaller)
  \/ MemoryCall(QueryCaller)
  \/ MemoryLock(QueryCaller)
  \/ MemoryReturn(QueryCaller)
  \/ \E len \in MessageLens : SendCall(QueryCaller, len)
  \/ SendValidate(QueryCaller)
  \/ SendLock(QueryCaller)
  \/ SendReturn(QueryCaller)
  \/ StatusCall(QueryCaller, "get_status")
  \/ StatusLock(QueryCaller)
  \/ StatusReturn(QueryCaller)
  \/ LifecycleSteps(BOOLEAN \X BOOLEAN, PanicPayloads)

SpecQuery == Init /\ [][NextQuery]_vars

\* One thread starts and stops the daemon while the supervisor of
\* SupervisedName runs its attempts; the timer of its sleep eventually fires.
SupervisorArgs ==
  ValidArgs
    \cup [data_dir : {<<"/", "d">>}, host : {<<"h", "1">>},
          config_toml : {"zero_backoff", "inverted_backoff"}, port : {8080}, msg_len : {0}]

NextSupervisor ==
  \/ \E a \in SupervisorArgs : StartCall(LifecycleCaller, a)
  \/ StopCall(LifecycleCaller)
  \/ \E g \in Gens : SupBegin(g)
  \/ \E g \in Gens : SupAttemptOk(g)
  \/ \E g \in Gens : SupAttemptErr(g)
  \/ \E g \in Gens : SupSleepDone(g)
  \/ LifecycleSteps({<<TRUE, TRUE>>}, {StrPayload})

SpecSupervisor ==
  Init /\ [][NextSupervisor]_vars /\ WF_vars(\E g \in Gens : SupSleepDone(g))

\* One thread starts and stops the daemon with backoff settings at the edges
\* of the integer range (zero, ceiling below the initial value, values whose
\* double exceeds the range) while the supervisor of SupervisedName runs its
\* attempts.
SaturationArgs ==
  [data_dir : {<<"/", "d">>}, host : {<<"h", "1">>},
   config_toml : {"zero_backoff", "inverted_backoff", "huge_backoff", "half_backoff",
                  "huge_inverted"},
   port : {8080}, msg_len : {0}]

NextSaturation ==
  \/ \E a \in SaturationArgs : StartCall(LifecycleCaller, a)
  \/ StopCall(LifecycleCaller)
  \/ \E g \in Gens : SupBegin(g)
  \/ \E g \in Gens : SupAttemptOk(g)
  \/ \E g \in Gens : SupAttemptErr(g)
  \/ \E g \in Gens : SupSleepDone(g)
  \/ LifecycleSteps({<<TRUE, TRUE>>}, {StrPayload})

SpecSaturation == Init /\ [][NextSaturation]_vars

\* The steps of record_event on the producer threads.
RecordSteps ==
  \/ \E t \in Producers : RecordBegin(t)
  \/ \E t \in Producers : RecordBufLock(t)
  \/ \E t \in Producers : RecordPush(t)
  \/ \E t \in Producers : RecordLisLock(t)
  \/ \E t \in Producers : RecordSnapshot(t)

\* Two producer threads record MaxRecords events each while a foreign thread
\* registers and unregisters listeners; the on_event of a re-entrant listener
\* registers, unregisters or reads the buffer from inside record_event.
InitEvents ==
  /\ InitLifecycle
  /\ calc = NoCalc
  /\ InitEventBridge(0)
  /\ quota = [t \in EventThreads |-> IF t \in Producers THEN MaxRecords ELSE 0]

NextEvents ==
  \/ RecordSteps
  \/ \E t \in Producers : OnEventPlain(t)
  \/ \E t \in Producers, call \in CallbackCalls : OnEventReenter(t, call)
  \/ \E t \in Admins, l \in Listeners : RegisterCall(t, l)
  \/ \E t \in Admins : UnregisterCall(t)
  \/ \E t \in EventThreads : ListenerLock(t)
  \/ \E t \in EventThreads : RegisterStore(t)
  \/ \E t \in EventThreads : UnregisterStore(t)
  \/ \E t \in EventThreads : RecentLock(t)
  \/ \E t \in EventThreads : RecentRead(t)

SpecEvents == InitEvents /\ [][NextEvents]_vars

\* Deliveries followed: producer p1 records MaxRecords events and producer p2
\* one, while a foreign thread registers and unregisters listeners; the
\* on_event of a re-entrant listener calls back into the crate.
InitDelivery ==
  /\ InitLifecycle
  /\ calc = NoCalc
  /\ InitEventBridgeFollowing(0, EventThreads)
  /\ quota = [t \in EventThreads |->
                IF t = "p1" THEN MaxRecords ELSE IF t = "p2" THEN 1 ELSE 0]

SpecDelivery == InitDelivery /\ [][NextEvents]_vars

\* One thread starts and stops the daemon; the supervisor of each generation
\* runs its loop and the state writer of each generation writes its snapshots.
OutliveArgs ==
  { [data_dir |-> <<"/", "d">>, host |-> <<"h", "1">>, config_toml |-> "minimal",
     port |-> 8080, msg_len |-> 0] }

NextOutlive ==
  \/ \E a \in OutliveArgs : StartCall(LifecycleCaller, a)
  \/ StopCall(LifecycleCaller)
  \/ \E g \in Gens : SupBegin(g)
  \/ \E g \in Gens : SupAttemptOk(g)
  \/ \E g \in Gens : SupAttemptErr(g)
  \/ \E g \in Gens : SupSleepDone(g)
  \/ \E g \in Gens : StateWriterTick(g)
  \/ \E g \in Gens : BlockingWriteDone(g)
  \/ LifecycleSteps({<<TRUE, TRUE>>}, {StrPayload})

SpecOutlive == Init /\ [][NextOutlive]_vars

\* Both threads start and stop the daemon and the second also reads the
\* status, under fair scheduling: a thread that can take its next step takes
\* it, an aborted task is cancelled at its suspension point, and a thread
\* waiting in lock() gets the mutex if it is free again and again.
NextStopLive ==
  \/ \E t \in Callers, a \in OutliveArgs : StartCall(t, a)
  \/ \E t \in Callers : StopCall(t)
  \/ StatusCall(QueryCaller, "get_status")
  \/ StatusLock(QueryCaller)
  \/ StatusReturn(QueryCaller)
  \/ LifecycleSteps({<<TRUE, TRUE>>}, {StrPayload})

CallerStep(t) ==
  \/ StartValidate(t) \/ StartMkdir(t) \/ RuntimeGet(t) \/ RuntimeSet(t)
  \/ StartSpawn(t, TRUE, TRUE) \/ StartPanic(t, StrPayload) \/ StartInstall(t)
  \/ StopAbort(t) \/ StopJoin(t) \/ StopFinish(t) \/ StatusReturn(t)

LockStep(t) == StartLock(t) \/ StopLock(t) \/ StatusLock(t)

SpecStopLive ==
  /\ Init /\ [][NextStopLive]_vars
  /\ \A t \in Callers : WF_vars(CallerStep(t)) /\ SF_vars(LockStep(t))
  /\ \A g \in Gens, n \in TaskNames : WF_vars(TaskTerminate(g, n))

\* The event bridge under a running daemon: one thread starts the daemon with
\* the heartbeat enabled and stops it, a second reads the status; the heartbeat
\* task records MaxRecords events on its worker thread; a foreign thread
\* registers and unregisters a listener whose on_event calls get_status.
ReentryArgs ==
  { [data_dir |-> <<"/", "d">>, host |-> <<"h", "1">>, config_toml |-> "heartbeat_only",
     port |-> 8080, msg_len |-> 0] }

InitReentry ==
  /\ InitLifecycle
  /\ calc = NoCalc
  /\ InitEventBridgeFollowing(0, {HeartbeatWorker})
  /\ quota = [t \in EventThreads |-> IF t = HeartbeatWorker THEN MaxRecords ELSE 0]

NextReentry ==
  \/ \E a \in ReentryArgs : StartCall(LifecycleCaller, a)
  \/ StopCall(LifecycleCaller)
  \/ StatusCall(QueryCaller, "get_status")
  \/ StatusLock(QueryCaller)
  \/ StatusReturn(QueryCaller)
  \/ LifecycleSteps({<<TRUE, TRUE>>}, {StrPayload})
  \/ \E g \in Gens : HeartbeatRecord(g)
  \/ RecordBufLock(HeartbeatWorker)
  \/ RecordPush(HeartbeatWorker)
  \/ RecordLisLock(HeartbeatWorker)
  \/ RecordSnapshot(HeartbeatWorker)
  \/ OnEventStatus(HeartbeatWorker)
  \/ CallbackStatusLock(HeartbeatWorker)
  \/ \E t \in Admins, l \in StatusListeners : RegisterCall(t, l)
  \/ \E t \in Admins : UnregisterCall(t)
  \/ \E t \in Admins : ListenerLock(t)
  \/ \E t \in Admins : RegisterStore(t)
  \/ \E t \in Admins : UnregisterStore(t)

SpecReentry == InitReentry /\ [][NextReentry]_vars

\* One producer thread makes MaxRecords + 1 Observer calls, each one a
\* record_event or a record_metric, while a foreign thread registers and
\* unregisters listeners.
InitMetrics ==
  /\ InitLifecycle
  /\ calc = NoCalc
  /\ InitEventBridge(0)
  /\ quota = [t \in EventThreads |-> IF t = "p1" THEN MaxRecords + 1 ELSE 0]

NextMetrics ==
  \/ NextEvents
  \/ \E t \in Producers : RecordMetric(t)

SpecMetrics == InitMetrics /\ [][NextMetrics]_vars

\* Two producer threads record MaxRecords events each while a foreign thread
\* reads the buffer with get_recent_events.
NextRecent ==
  \/ RecordSteps
  \/ \E t \in Admins, limit \in Limits : RecentCall(t, limit)
  \/ \E t \in Admins : RecentLock(t)
  \/ \E t \in Admins : RecentRead(t)

SpecRecent == InitEvents /\ [][NextRecent]_vars

\* The ring buffer at its capacity: either one thread records MaxEvents events
\* in a row into the empty buffer, or two threads record MaxRecords events
\* each, concurrently, into a buffer that is one entry short of full.
InitRing ==
  /\ InitLifecycle
  /\ calc = NoCalc
  /\ \/ /\ InitEventBridge(0)
        /\ quota = [t \in EventThreads |-> IF t = "p1" THEN MaxEvents ELSE 0]
     \/ /\ InitEventBridge(EVENT_BUFFER_CAPACITY - 1)
        /\ quota = [t \in EventThreads |-> IF t \in Producers THEN MaxRecords ELSE 0]

SpecRing == InitRing /\ [][RecordSteps]_vars

\* One thread starts the daemon with each combination of real-time channels,
\* other channels and heartbeat, and stops it, while the other reads the status.
SpawnArgs ==
  [data_dir : {<<"/", "d">>}, host : {<<"h", "1">>},
   config_toml : {"minimal", "full", "channels_only", "heartbeat_only", "cli_only"},
   port : {8080}, msg_len : {0}]

NextSpawn ==
  \/ \E a \in SpawnArgs : StartCall(LifecycleCaller, a)
  \/ StopCall(LifecycleCaller)
  \/ StatusCall(QueryCaller, "get_status")
  \/ StatusLock(QueryCaller)
  \/ StatusReturn(QueryCaller)
  \/ LifecycleSteps({<<TRUE, TRUE>>}, {StrPayload})

SpecSpawn == Init /\ [][NextSpawn]_vars

\* Panics under both mutexes: one thread starts and stops the daemon, with
\* valid arguments or with a data_dir that fails validation, and its spawn may
\* panic; a second thread reads the status and sends messages; a foreign
\* thread registers and unregisters a listener whose Drop panics.
PoisonArgs ==
  { [data_dir |-> <<"/", "d">>, host |-> <<"h", "1">>, config_toml |-> "minimal",
     port |-> 8080, msg_len |-> 0],
    [data_dir |-> <<"d">>, host |-> <<"h", "1">>, config_toml |-> "minimal",
     port |-> 8080, msg_len |-> 0] }

InitPoison ==
  /\ InitLifecycle
  /\ calc = NoCalc
  /\ InitEventBridge(0)
  /\ quota = [t \in EventThreads |-> 0]

NextPoison ==
  \/ \E a \in PoisonArgs : StartCall(LifecycleCaller, a)
  \/ StopCall(LifecycleCaller)
  \/ StatusCall(QueryCaller, "get_status")
  \/ StatusLock(QueryCaller)
  \/ StatusReturn(QueryCaller)
  \/ \E len \in MessageLens : SendCall(QueryCaller, len)
  \/ SendValidate(QueryCaller)
  \/ SendLock(QueryCaller)
  \/ SendReturn(QueryCaller)
  \/ LifecycleSteps({<<TRUE, TRUE>>}, {StrPayload})
  \/ \E t \in Admins, l \in PanickingDrops : RegisterCall(t, l)
  \/ \E t \in Admins : UnregisterCall(t)
  \/ \E t \in Admins : ListenerLock(t)
  \/ \E t \in Admins : RegisterStore(t)
  \/ \E t \in Admins : UnregisterStore(t)
  \/ \E t \in Admins : StoreDropPanic(t, StrPayload)

SpecPoison == InitPoison /\ [][NextPoison]_vars

\* escape_json_string applied to every string of at most MaxEscapeLen
\* characters of EscapeChars, and the result, between quotes, parsed as JSON.
EscapeInputs == UNION {[1..n -> EscapeChars] : n \in 0..MaxEscapeLen}

InitEscape ==
  /\ InitLifecycle
  /\ InitEventBridge(0)
  /\ quota = [t \in EventThreads |-> 0]
  /\ calc \in {[pc |-> "input", s |-> s, out |-> <<>>, parsed |-> ParseError] :
                 s \in EscapeInputs}

PureFrame == UNCHANGED <<shared, history, pc, op, ret, arg, built, local_state, joinIdx,
                         daemon_running, snap, effects, sup, sup_hist, evVars, writer>>

Escape ==
  /\ calc.pc = "input"
  /\ calc' = [calc EXCEPT !.pc = "escaped", !.out = escape_json_string(calc.s)]
  /\ PureFrame

ParseEscaped ==
  /\ calc.pc = "escaped"
  /\ calc' = [calc EXCEPT !.pc = "parsed",
                          !.parsed = ParseJsonString(<<QUOTE>> \o calc.out \o <<QUOTE>>)]
  /\ PureFrame

NextEscape ==
  \/ Escape
  \/ ParseEscaped

SpecEscape == InitEscape /\ [][NextEscape]_vars

\* The conversion inside check_budget_inner applied to every result that
\* tracker.check_budget can return with Ok.
InitBudget ==
  /\ InitLifecycle
  /\ InitEventBridge(0)
  /\ quota = [t \in EventThreads |-> 0]
  /\ calc \in {[pc |-> "checked", check |-> c, status |-> BudgetAllowed] :
                 c \in BudgetChecks}

ConvertBudget ==
  /\ calc.pc = "checked"
  /\ calc' = [calc EXCEPT !.pc = "converted", !.status = FfiBudgetStatus(calc.check)]
  /\ PureFrame

NextBudget == ConvertBudget

SpecBudget == InitBudget /\ [][NextBudget]_vars

\* Two successive scaffold_workspace calls on one workspace path, each with
\* empty or given parameters.  Before the first call the directory tree holds
\* any of two of the subdirectories and any of two of the files, as edited by
\* the user; creating a directory or a file can fail, and a failed write can
\* leave a truncated file behind.
InitScaffold ==
  /\ InitLifecycle
  /\ InitEventBridge(0)
  /\ quota = [t \in EventThreads |-> 0]
  /\ \E dirs \in SUBSET {"sessions", "skills"}, edited \in SUBSET {"SOUL.md", "MEMORY.md"},
        p1 \in ScaffoldParams, p2 \in ScaffoldParams :
        calc = [pc |-> "idle", calls |-> 0, i |-> 0, params |-> <<p1, p2>>,
                dirs |-> dirs,
                files |-> [n \in Range(TemplateNames) |->
                             IF n \in edited THEN UserEdited ELSE Absent],
                ret |-> <<>>]

\* the foreign caller enters scaffold_workspace
ScaffoldCall ==
  /\ calc.pc = "idle"
  /\ calc.calls < 2
  /\ calc' = [calc EXCEPT !.pc = "dirs", !.calls = @ + 1, !.i = 1]
  /\ PureFrame

\* the position after the i-th directory
AfterDir(i) == IF i < Len(SUBDIRS) THEN [pc |-> "dirs", i |-> i + 1]
               ELSE [pc |-> "files", i |-> 1]

\* fs::create_dir_all(base.join(subdir)) returning Ok (lines 68-72): the
\* directory exists afterwards
CreateDir ==
  /\ calc.pc = "dirs"
  /\ calc' = [calc EXCEPT !.dirs = @ \cup {SUBDIRS[calc.i]},
                          !.pc = AfterDir(calc.i).pc, !.i = AfterDir(calc.i).i]
  /\ PureFrame

\* fs::create_dir_all failing on a directory that does not exist yet
CreateDirFail ==
  /\ calc.pc = "dirs"
  /\ SUBDIRS[calc.i] \notin calc.dirs
  /\ calc' = [calc EXCEPT !.pc = "idle", !.i = 0,
                          !.ret = Append(@, Err("ConfigError",
                                                "failed to create workspace directory"))]
  /\ PureFrame

\* the position after the i-th file; after the last one the call returns Ok
AfterFile(c) ==
  IF c.i < Len(TemplateNames) THEN [c EXCEPT !.i = @ + 1]
  ELSE [c EXCEPT !.pc = "idle", !.i = 0, !.ret = Append(@, Ok(""))]

\* lines 75-82, one iteration: the file is written when it does not exist
WriteFile ==
  /\ calc.pc = "files"
  /\ LET name == TemplateNames[calc.i] IN
       calc' = AfterFile(
                 IF ShouldWrite(calc.files[name])
                   THEN [calc EXCEPT !.files[name] =
                                       Rendered(name, calc.params[calc.calls])]
                   ELSE calc)
  /\ PureFrame

\* fs::write failing: the file was not created, or was created and not
\* written in full
WriteFileFail ==
  /\ calc.pc = "files"
  /\ LET name == TemplateNames[calc.i] IN
       /\ ShouldWrite(calc.files[name])
       /\ \E left \in {Absent, Truncated} :
            calc' = [calc EXCEPT !.files[name] = left, !.pc = "idle", !.i = 0,
                                 !.ret = Append(@, Err("ConfigError",
                                                       "failed to write workspace file"))]
  /\ PureFrame

NextScaffold ==
  \/ ScaffoldCall
  \/ CreateDir
  \/ CreateDirFail
  \/ WriteFile
  \/ WriteFileFail

SpecScaffold == InitScaffold /\ [][NextScaffold]_vars

\* ================================================================ claims
\* The caller t takes a step / returns from its call in this step.
StepBy(t) == pc'[t] # pc[t] \/ joinIdx'[t] # joinIdx[t]
Returns(t) == pc[t] # "idle" /\ pc'[t] = "idle"

\* The number of DaemonState values in existence: in the slot or owned by a call.
StateCount == Len(daemon) + Cardinality({t \in Callers : Len(local_state[t]) > 0})

AllDone(state) == \A n \in Range(state.handles) : tasks[state.gen][n] = "done"

\* C1: in every reachable state at most one DaemonState exists (in the slot, or
\* owned by the Start that is building it or the Stop that took it), and a
\* status read (get_status / get_health_detail via is_daemon_running) reports
\* running exactly when the slot was non-empty while the read held the mutex.
C1_SingleStateAndStatus ==
  /\ Len(daemon) <= 1
  /\ \A t \in Callers : Len(local_state[t]) <= 1
  /\ StateCount <= 1
  /\ \A t \in Callers :
       /\ pc[t] = "status_snapshot" => (daemon_running[t] = "true") = (snap[t] = "some")
       /\ (pc[t] = "idle" /\ op[t] \in StatusOps /\ ret[t].kind = "Ok")
            => (ret[t].detail = "true") = (snap[t] = "some")

\* C1 witness: a status read has reported running, and by now the slot is empty
\* again; the other caller's read reported not running.
C1_Witness ==
  \E t \in Callers, u \in Callers :
    /\ pc[t] = "idle" /\ op[t] = "get_status" /\ ret[t] = Ok("true") /\ daemon = <<>>
    /\ pc[u] = "idle" /\ op[u] = "get_health_detail" /\ ret[u] = Ok("false")

\* C2 as stated: every Start call entered and returning while a state is
\* installed returns StateError("daemon already running"), whatever its arguments.
C2_Original ==
  [][\A t \in Callers :
       (op[t] = "start_daemon" /\ Returns(t) /\ snap[t] = "entered_running" /\ IsSome(daemon))
         => ret'[t] = AlreadyRunning]_vars

\* C2 amended: no step of a Start call taken while a state is installed changes
\* the slot, the tasks, the handle identities or the health marks; such a call
\* never returns Ok; and when it reaches the already-running check with the
\* mutex unpoisoned it returns StateError("daemon already running").  (Calls
\* whose arguments fail validation return ConfigError before that check.)
C2_StartWhileRunning ==
  [][\A t \in Callers :
       (op[t] = "start_daemon" /\ StepBy(t) /\ IsSome(daemon))
         => /\ daemon' = daemon /\ tasks' = tasks /\ nextGen' = nextGen /\ health' = health
            /\ (Returns(t) => ret'[t].kind \in {"ConfigError", "SpawnError",
                                                "StateError", "StateCorrupted"})
            /\ (pc[t] = "start_lock" /\ ~poisoned)
                 => (pc'[t] = "idle" /\ ret'[t] = AlreadyRunning)]_vars

\* C2 witness: a Start with valid arguments was refused with StateError while
\* the state installed by the other caller (different port and config) remains.
C2_Witness ==
  \E t \in Callers :
    /\ pc[t] = "idle" /\ op[t] = "start_daemon" /\ ret[t] = AlreadyRunning
    /\ snap[t] = "some" /\ IsSome(daemon) /\ okStops = 0

\* C3: from the already-running check to the installation a Start holds the
\* mutex without interruption and the slot stays empty; at most one Start is in
\* that section; and every set of tasks ever spawned belongs to a Start that
\* has installed its state or is about to, so that a losing Start spawns nothing.
C3_CheckAndInstallAtomic ==
  /\ \A t \in Callers :
       pc[t] \in {"start_spawn", "start_install"} => (lockHolder = <<t>> /\ daemon = <<>>)
  /\ Cardinality({t \in Callers : pc[t] \in {"start_spawn", "start_install"}}) <= 1
  /\ nextGen - 1 = okStarts + Cardinality({t \in Callers : pc[t] = "start_install"})
  /\ \A g \in Gens : g >= nextGen => \A n \in TaskNames : tasks[g][n] = "none"

\* C3 witness: two Start calls race on the stopped daemon; one has spawned its
\* tasks and is about to install, the other waits for the mutex.
C3_Witness ==
  \E t \in Callers, u \in Callers :
    /\ pc[t] = "start_install" /\ pc[u] = "start_lock"
    /\ snap[u] = "entered_stopped" /\ okStarts = 0

\* C4 as stated: a Stop that found the slot empty and returned
\* StateError("daemon not running") has written no process-wide state.
C4_StopNotRunningNoEffects ==
  \A t \in Callers :
    (pc[t] = "idle" /\ op[t] = "stop_daemon" /\ ret[t] = NotRunning) => effects[t] = {}

\* C5: a state is taken by at most one Stop: at most one call owns a taken
\* state, the state it owns is no longer in the slot nor owned by another call,
\* and Stop never returns Ok more often than Start did.
C5_NoDoubleStop ==
  /\ Cardinality({t \in Callers : op[t] = "stop_daemon" /\ Len(local_state[t]) > 0}) <= 1
  /\ \A t \in Callers :
       pc[t] \in {"stop_abort", "stop_join", "stop_mark"}
         => /\ Len(local_state[t]) = 1
            /\ daemon = <<>>
            /\ \A u \in Callers \ {t} : local_state[u] = <<>>
  /\ okStops <= okStarts

\* C5 witness: of two Stop calls on the running daemon one returned Ok and the
\* other StateError("daemon not running").
C5_Witness ==
  \E t \in Callers, u \in Callers :
    /\ pc[t] = "idle" /\ op[t] = "stop_daemon" /\ ret[t] = Ok("")
    /\ pc[u] = "idle" /\ op[u] = "stop_daemon" /\ ret[u] = NotRunning
    /\ okStarts = 1 /\ okStops = 1

\* C6: when Stop returns Ok the slot is empty, every task tracked by the taken
\* state has terminated and the 'daemon' health entry is errored with
\* "shutdown requested"; and that mark is only ever written by a Stop whose
\* tracked tasks have all terminated.
C6_StopPostcondition ==
  [][/\ \A t \in Callers :
          (op[t] = "stop_daemon" /\ Returns(t) /\ ret'[t].kind = "Ok")
            => /\ daemon' = <<>>
               /\ \A n \in Range(local_state[t][1].handles) :
                    tasks'[local_state[t][1].gen][n] = "done"
               /\ health'["daemon"] = HealthError("shutdown requested")
     /\ (health'["daemon"] = HealthError("shutdown requested") /\ health' # health)
          => \E t \in Callers :
               /\ pc[t] = "stop_mark" /\ AllDone(local_state[t][1])]_vars

\* C6 witness: Stop has returned Ok for the second generation of tasks.
C6_Witness ==
  \E t \in Callers :
    /\ pc[t] = "idle" /\ op[t] = "stop_daemon" /\ ret[t] = Ok("")
    /\ okStops = 2 /\ tasks[2]["scheduler"] = "done"
    /\ health["daemon"] = HealthError("shutdown requested")

\* C7 as stated: while Stop aborts and awaits the tasks it does not hold the
\* lifecycle mutex, so that a query can lock it, see the empty slot and return.
C7_MutexFreeWhileStopWaits ==
  \A t \in Callers : pc[t] \in {"stop_abort", "stop_join"} => lockHolder # <<t>>

\* C8: successful Start and Stop calls strictly alternate beginning with a
\* Start (okStops <= okStarts <= okStops + 1); between a successful Start and
\* the next Stop's take a state is installed; after a successful Stop the slot
\* is empty, and a Start that then reaches the check passes it.
C8_StartStopCycle ==
  /\ [](/\ okStops <= okStarts /\ okStarts <= okStops + 1
        /\ (okStarts = okStops => daemon = <<>>)
        /\ (okStarts = okStops + 1 =>
              IsSome(daemon) \/ \E t \in Callers : pc[t] \in {"stop_abort", "stop_join", "stop_mark"}))
  /\ [][\A t \in Callers :
          (pc[t] = "start_lock" /\ StepBy(t) /\ ~poisoned /\ okStarts = okStops)
            => pc'[t] = "start_spawn"]_vars

\* C8 witness: the daemon has been started, stopped and started again.
C8_Witness == okStarts = 2 /\ okStops = 1 /\ IsSome(daemon)

\* The exported queries that need a running daemon, the positions at which they
\* test the slot, and the positions at which their subsystem call is in progress.
DaemonQueryOps ==
  {"get_cost_summary", "list_memories", "send_message"} \cup CronOps \cup ConfigCloneOps
PresenceCheckPcs == {"cost_lock", "config_lock", "mem_lock", "send_lock"}
SubsystemPcs == {"cost_call", "cron_call", "skills_load", "mem_call", "send_http"}

C10_NoSubsystemCallUnderMutex ==
  \A t \in Callers : pc[t] \in SubsystemPcs => lockHolder # <<t>>

\* The data_dir values that contain ".." or do not start with "/", and the host
\* values that are empty or hold a character outside [A-Za-z0-9.:-].
BadDataDirs == { <<"d">>, <<"/", ".", ".">> }
BadHosts == { <<>>, <<"h", "/">> }

\* C11: a Start whose data_dir contains ".." or does not start with "/" never
\* gets past the argument checks: while the call is in progress it holds no
\* mutex and has written nothing, and the step that ends it returns ConfigError
\* and leaves the slot, the mutex, the tasks, the runtime and the filesystem
\* unchanged, whether or not a state is installed.
C11_BadDataDirRejected ==
  /\ [](\A t \in Callers :
          (op[t] = "start_daemon" /\ pc[t] # "idle" /\ arg[t].data_dir \in BadDataDirs)
            => (pc[t] = "start_validate" /\ lockHolder # <<t>> /\ effects[t] = {}))
  /\ [][\A t \in Callers :
          (pc[t] = "start_validate" /\ arg[t].data_dir \in BadDataDirs /\ StepBy(t))
            => /\ pc'[t] = "idle" /\ ret'[t].kind = "ConfigError"
               /\ UNCHANGED shared /\ effects'[t] = {}]_vars

\* C11 witness: a Start with a data_dir holding ".." was refused with
\* ConfigError while the daemon was running; only the running daemon's
\* workspace directory exists.
C11_Witness ==
  \E t \in Callers :
    /\ pc[t] = "idle" /\ op[t] = "start_daemon"
    /\ ret[t] = [kind |-> "ConfigError", detail |-> "data_dir must not contain '..' segments"]
    /\ snap[t] = "entered_running" /\ IsSome(daemon) /\ workspace = { <<"/", "d">> }

\* C12: a Start whose host is empty or holds a character other than an ASCII
\* alphanumeric, '.', ':' or '-' never gets past the argument checks, returns
\* ConfigError, and leaves the lifecycle state and the filesystem unchanged.
C12_BadHostRejected ==
  /\ [](\A t \in Callers :
          (op[t] = "start_daemon" /\ pc[t] # "idle" /\ arg[t].host \in BadHosts)
            => (pc[t] = "start_validate" /\ effects[t] = {}))
  /\ [][\A t \in Callers :
          (pc[t] = "start_validate" /\ arg[t].host \in BadHosts /\ StepBy(t))
            => /\ pc'[t] = "idle" /\ ret'[t].kind = "ConfigError"
               /\ daemon' = daemon /\ tasks' = tasks /\ health' = health
               /\ workspace' = workspace]_vars

\* C12 witness: a Start with the host "h/" was refused with ConfigError on a
\* stopped daemon and no workspace directory was created.
C12_Witness ==
  \E t \in Callers :
    /\ pc[t] = "idle" /\ op[t] = "start_daemon"
    /\ ret[t] = [kind |-> "ConfigError", detail |-> "host contains invalid characters"]
    /\ daemon = <<>> /\ workspace = {} /\ okStarts = 0

\* C13: a Start whose cost tracker or memory backend failed to initialise still
\* installs its state and returns Ok, with the failed subsystem absent from the
\* state; while such a state is installed a status read reports running, a cost
\* query that finds no tracker returns StateError("cost tracking not enabled")
\* and a memory query that finds no backend returns
\* StateError("memory backend not available"), neither reaching its subsystem.
C13_BestEffortInit ==
  /\ [](/\ \A t \in Callers :
             pc[t] = "start_install"
               => /\ ("cost" \in init_failed => ~local_state[t][1].cost_tracker)
                  /\ ("memory" \in init_failed => ~local_state[t][1].memory)
        /\ IsSome(daemon)
             => /\ ("cost" \in init_failed => ~daemon[1].cost_tracker)
                /\ ("memory" \in init_failed => ~daemon[1].memory)
        /\ \A t \in Callers :
             /\ (pc[t] = "cost_call" => ~("cost" \in init_failed))
             /\ (pc[t] = "mem_call" /\ IsSome(daemon) /\ snap[t] = "some" /\ okStops = 0
                   => ~("memory" \in init_failed)))
  /\ [][\A t \in Callers :
          /\ (pc[t] = "start_install" /\ StepBy(t))
               => (ret'[t] = Ok("") /\ daemon' = local_state[t] /\ IsSome(daemon'))
          /\ (pc[t] = "status_lock" /\ StepBy(t) /\ IsSome(daemon) /\ ~poisoned)
               => daemon_running'[t] = "true"
          /\ (pc[t] = "cost_lock" /\ StepBy(t) /\ IsSome(daemon) /\ ~poisoned
                /\ "cost" \in init_failed)
               => ret'[t] = [kind |-> "StateError", detail |-> "cost tracking not enabled"]
          /\ (pc[t] = "mem_lock" /\ StepBy(t) /\ IsSome(daemon) /\ ~poisoned
                /\ "memory" \in init_failed)
               => ret'[t] = [kind |-> "StateError", detail |-> "memory backend not available"]]_vars

\* C13 witness: the daemon runs with cost tracking enabled in its config but
\* with neither tracker nor memory backend, Start having returned Ok, and a
\* cost query was answered with "cost tracking not enabled".
C13_Witness ==
  /\ IsSome(daemon) /\ init_failed = {"cost", "memory"}
  /\ pc[LifecycleCaller] = "idle" /\ op[LifecycleCaller] = "start_daemon"
  /\ ret[LifecycleCaller] = Ok("")
  /\ pc[QueryCaller] = "idle" /\ op[QueryCaller] = "get_cost_summary"
  /\ ret[QueryCaller] = [kind |-> "StateError", detail |-> "cost tracking not enabled"]

RECURSIVE Pow2(_)
Pow2(n) == IF n <= 0 THEN 1 ELSE 2 * Pow2(n - 1)

\* The supervisor ends an attempt (and begins its next sleep) in this step.
SupOutcome == sup'.gen = sup.gen /\ sup_hist'.iteration = sup_hist.iteration + 1

\* C14: while every attempt of the supervised component has failed with an
\* error, its k-th sleep lasts min(initial * 2^(k-1), max) seconds, initial and
\* max being the backoff arguments of the supervisor: 1,2,4,8,16,32,60,60,..
\* for 1 and 60, and 2,4,8,10,10,.. for 2 and 10; the sleeps of such a run never
\* decrease, and no sleep is ever longer than max.
C14_BackoffSequence ==
  /\ [](LET k == sup_hist.iteration IN
          /\ (sup.pc = "sleep" /\ sup_hist.all_errors)
               => /\ sup_hist.slept
                       = IF sup.initial_backoff_secs * Pow2(k - 1) <= sup.max_backoff_secs
                           THEN sup.initial_backoff_secs * Pow2(k - 1)
                           ELSE sup.max_backoff_secs
                  /\ (sup.initial_backoff_secs = 1 /\ sup.max_backoff_secs = 60)
                       => sup_hist.slept = IF k <= 6 THEN <<1, 2, 4, 8, 16, 32>>[k] ELSE 60
                  /\ (sup.initial_backoff_secs = 2 /\ sup.max_backoff_secs = 10)
                       => sup_hist.slept = IF k <= 3 THEN <<2, 4, 8>>[k] ELSE 10
          /\ sup_hist.slept <= sup.max_backoff_secs)
  /\ [][(SupOutcome /\ sup_hist'.all_errors) => sup_hist'.slept >= sup_hist.slept]_vars

\* C14 witness: the eighth sleep in a row after an error, with initial 1 and
\* max 60, lasts 60 seconds.
C14_Witness ==
  /\ sup.pc = "sleep" /\ sup_hist.all_errors /\ sup_hist.iteration = 8
  /\ sup.initial_backoff_secs = 1 /\ sup.max_backoff_secs = 60 /\ sup_hist.slept = 60

\* C15: the step in which an attempt returns Ok marks the component errored
\* with "component exited unexpectedly" and begins a sleep of the initial
\* backoff, whatever the sleeps before; the step in which an attempt returns
\* an error begins a sleep twice as long as the previous one (up to the
\* ceiling), the first sleep being the initial backoff.
C15_CleanExitResetsBackoff ==
  [][SupOutcome =>
       /\ sup_hist'.last = "ok"
            => /\ sup_hist'.slept = sup.initial_backoff_secs
               /\ sup'.health = [status |-> "error",
                                 last_error |-> "component exited unexpectedly"]
       /\ sup_hist'.last = "err"
            => /\ sup_hist'.slept
                    = IF sup_hist.iteration = 0 THEN sup.initial_backoff_secs
                      ELSE IF 2 * sup_hist.slept <= sup.max_backoff_secs
                        THEN 2 * sup_hist.slept
                        ELSE sup.max_backoff_secs
               /\ sup'.health.status = "error"
               /\ sup'.health.last_error # "component exited unexpectedly"]_vars

\* C15 witness: after sleeps that had grown to 8 seconds a clean exit is
\* followed by a sleep of the initial 1 second.
C15_Witness ==
  /\ sup.pc = "sleep" /\ sup_hist.last = "ok" /\ sup_hist.prev_slept = 8
  /\ sup_hist.slept = 1 /\ sup.initial_backoff_secs = 1
  /\ sup.health = [status |-> "error", last_error |-> "component exited unexpectedly"]

\* C16: the supervisor is only ever at an attempt or in a sleep; every outcome
\* of an attempt, clean or not, leads into a sleep and every sleep back to an
\* attempt; a task stops running only in the step in which Stop aborts the
\* handles; and a supervisor in its sleep eventually starts another attempt
\* unless it is aborted.
C16_SupervisorNeverExits ==
  /\ [](sup.pc \in {"none", "attempt", "sleep"})
  /\ [][/\ SupOutcome => sup'.pc = "sleep"
        /\ (sup'.gen = sup.gen /\ sup.pc = "sleep" /\ sup' # sup) => sup'.pc = "attempt"
        /\ \A g \in Gens, n \in TaskNames :
             (tasks[g][n] = "running" /\ tasks'[g][n] # "running")
               => \E t \in Callers :
                    /\ op[t] = "stop_daemon" /\ pc[t] = "stop_abort" /\ pc'[t] = "stop_join"
                    /\ local_state[t][1].gen = g]_vars
  /\ \A g \in Gens :
       (sup.gen = g /\ sup.pc = "sleep" /\ tasks[g][SupervisedName] = "running")
         ~> ((sup.gen = g /\ sup.pc = "attempt") \/ tasks[g][SupervisedName] # "running")

\* C16 witness: after eight attempts, the latest a clean exit, the supervisor
\* of the second generation is alive and has started a ninth.
C16_Witness ==
  /\ sup.gen = 2 /\ sup.pc = "attempt" /\ tasks[2][SupervisedName] = "running"
  /\ sup_hist.iteration = 8 /\ sup_hist.last = "ok"

\* C17: the ring buffer never holds more than 500 entries, with one producer or
\* with two; it always holds the most recently buffered entries (all of them,
\* or the latest 500), oldest first; and once 550 events have been recorded
\* into the empty buffer it holds exactly the entries of the 51st to the 550th.
C17_RingBufferBounded ==
  LET n == Len(pushed)
      kept == IF n <= 500 THEN n ELSE 500
  IN /\ Len(event_buffer) <= 500
     /\ event_buffer = SubSeq(pushed, n - kept + 1, n)
     /\ n = 550 => /\ Len(event_buffer) = 500
                   /\ \A i \in 1..500 : event_buffer[i].id = 49 + i

\* C17 witness: 550 events were recorded into the empty buffer; 500 entries
\* remain, the oldest being the 51st event (id 50).
C17_Witness ==
  /\ Len(pushed) = 550 /\ pushed[1].id = 0 /\ epc["p1"] = "idle"
  /\ Len(event_buffer) = 500 /\ event_buffer[1].id = 50 /\ event_buffer[500].id = 549

\* C18: get_recent_events(limit) on a buffer of n entries returns its last
\* min(limit, n) entries in buffer order: the whole buffer when limit >= n,
\* nothing when limit = 0 or the buffer is empty; the buffer is left as it was.
C18_RecentWindow ==
  [][\A t \in Admins :
       (epc[t] = "recent_read" /\ epc'[t] = "idle")
         => LET n == Len(event_buffer)
                limit == earg[t].limit
                k == IF limit <= n THEN limit ELSE n
            IN /\ Len(eresult'[t]) = k
               /\ \A i \in 1..k : eresult'[t][i] = event_buffer[n - k + i]
               /\ (limit >= n => eresult'[t] = event_buffer)
               /\ ((limit = 0 \/ n = 0) => eresult'[t] = <<>>)
               /\ event_buffer' = event_buffer]_vars

\* C18 witness: with four entries buffered, get_recent_events(2) has returned
\* the third and the fourth.
C18_Witness ==
  /\ Len(event_buffer) = 4 /\ epc["ui"] = "idle"
  /\ eresult["ui"] = <<event_buffer[3], event_buffer[4]>>

\* C19: the ids are strictly increasing in the order in which the record calls
\* obtained them: the id a call obtains is greater than every id obtained
\* before; no two calls in progress hold the same id and no two buffered
\* entries carry the same id, with two producer threads recording at once.
C19_EventIdsUniqueIncreasing ==
  /\ [](/\ \A i \in 1..Len(issued), j \in 1..Len(issued) : i < j => issued[i] < issued[j]
        /\ \A t \in EventThreads, u \in EventThreads :
             (t # u /\ eid[t] # -1) => eid[t] # eid[u]
        /\ \A i \in 1..Len(event_buffer), j \in 1..Len(event_buffer) :
             i # j => event_buffer[i].id # event_buffer[j].id)
  /\ [][\A t \in EventThreads :
          (eid'[t] # eid[t] /\ eid'[t] # -1)
            => \A i \in 1..Len(issued) : eid'[t] > issued[i]]_vars

\* C19 witness: both producers are inside record_event with their second ids,
\* and the entry with the later id was buffered before the one with the earlier.
C19_Witness ==
  /\ eid["p1"] = 3 /\ eid["p2"] = 2 /\ Len(issued) = 4
  /\ Len(event_buffer) = 2 /\ event_buffer[1].id = 1 /\ event_buffer[2].id = 0

\* C20: at the call of on_event the recording thread holds neither the buffer
\* mutex nor the listener mutex; a call of register, unregister or
\* get_recent_events made from inside on_event never waits for a mutex its own
\* thread holds; and whoever holds one of the two mutexes is at a position
\* that releases it without waiting for anything, so the call returns.
C20_CallbackOutsideLocks ==
  /\ \A t \in EventThreads :
       /\ epc[t] = "on_event" => (buf_lock # <<t>> /\ lis_lock # <<t>>)
       /\ (in_callback[t] /\ epc[t] \in {"reg_lock", "unreg_lock", "recent_lock"})
            => (buf_lock # <<t>> /\ lis_lock # <<t>>)
       /\ lis_lock = <<t>> => epc[t] \in {"rec_snapshot", "reg_store", "unreg_store"}
       /\ buf_lock = <<t>> => epc[t] \in {"rec_push", "recent_read"}
  /\ ~(buf_lock # <<>> /\ buf_lock = lis_lock)

\* C20 witness: from inside on_event, called by record_event on p1, the
\* listener has re-entered register and holds the listener mutex, while p2
\* waits for that mutex in its own record_event.
C20_Witness ==
  /\ in_callback["p1"] /\ epc["p1"] = "reg_store" /\ lis_lock = <<"p1">>
  /\ maybe_listener["p1"] = <<"B">> /\ epc["p2"] = "rec_lis_lock"

\* C21: whenever record_event is about to invoke on_event, the listener it
\* invokes is one that a register call left in the slot at the start of this
\* record call or later; so once unregister has returned, a record call that
\* starts afterwards (with no register in between) invokes no listener, and
\* only a call already under way can still reach the unregistered one.
C21_NoDeliveryAfterUnregister ==
  \A t \in Producers :
    /\ epc[t] = "on_event" => (maybe_listener[t] # <<>> /\ maybe_listener[t] \in since[t])
    /\ (eid[t] # -1 /\ since[t] = {<<>>}) => (epc[t] # "on_event" /\ ~in_callback[t])

\* C21 witness: unregister has returned and the slot is empty, and a record
\* call that began while "A" was registered is about to deliver to "A"; the
\* other producer's call began after the unregister and is past its snapshot
\* point or before it with nothing to deliver to.
C21_Witness ==
  /\ settled = <<>> /\ listener = <<>>
  /\ epc["p1"] = "on_event" /\ maybe_listener["p1"] = <<"A">>
  /\ since["p1"] = {<<"A">>, <<>>}
  /\ eid["p2"] > eid["p1"] /\ since["p2"] = {<<>>} /\ epc["p2"] = "rec_snapshot"

\* C22: the slot never holds more than one listener, and a record call that
\* reaches its snapshot point when register(l) was the latest call to return
\* at its start and no register / unregister has returned since invokes
\* on_event of l, of no other listener.
C22_RegisterReplaces ==
  /\ [](Len(listener) <= 1)
  /\ [][\A t \in Producers, l \in Listeners :
          (epc[t] = "rec_snapshot" /\ epc'[t] # "rec_snapshot" /\ since[t] = {<<l>>})
            => (epc'[t] = "on_event" /\ maybe_listener'[t] = <<l>>)]_vars

\* C22 witness: register("A") and then register("B") have returned, and a
\* record call that began after the second is about to invoke "B".
C22_Witness ==
  \E t \in Producers :
    /\ epc[t] = "on_event" /\ maybe_listener[t] = <<"B">> /\ since[t] = {<<"B">>}
    /\ settled = <<"B">> /\ \E u \in Producers : since[u] = {<<"A">>, <<"B">>}

\* C23: a record_metric call leaves the ring buffer, the id counter, the
\* listener slot and both locks as they were, and ends without reaching
\* on_event: nothing is buffered and no listener is invoked.
C23_MetricsNotForwarded ==
  [][\A t \in Producers :
       (epc[t] = "idle" /\ epc'[t] = "idle" /\ quota'[t] # quota[t])
         => /\ event_buffer' = event_buffer /\ pushed' = pushed
            /\ event_counter' = event_counter /\ issued' = issued
            /\ listener' = listener /\ settled' = settled
            /\ buf_lock' = buf_lock /\ lis_lock' = lis_lock
            /\ maybe_listener' = maybe_listener /\ in_callback' = in_callback]_vars

\* C23 witness: with listener "A" registered the producer has made all its
\* calls, of which only one was a record_event; the others were metrics and
\* the buffer holds the one event.
C23_Witness ==
  /\ listener = <<"A">> /\ quota["p1"] = 0 /\ epc["p1"] = "idle"
  /\ event_counter = 1 /\ Len(event_buffer) = 1 /\ pushed = event_buffer

\* C24: a panic raised inside an exported operation ends the call at once with
\* InternalPanic and the mutex released by unwinding; the detail of an
\* InternalPanic result is the text of the payload when the payload is a &str
\* or a String and "unknown panic" for any other payload.
C24_PanicBoundary ==
  /\ [](\A t \in Callers :
          (pc[t] = "idle" /\ ret[t].kind = "InternalPanic")
            => /\ thrown[t] # NoPayload
               /\ ret[t].detail = IF thrown[t].type \in {"&str", "String"}
                                    THEN thrown[t].text ELSE "unknown panic")
  /\ [][\A t \in Callers :
          thrown'[t] # thrown[t]
            => (pc[t] # "idle" /\ pc'[t] = "idle" /\ ret'[t].kind = "InternalPanic"
                /\ lockHolder' = <<>>)]_vars

\* C24 witness: a cron call panicked with a String payload while the daemon
\* was running and returned InternalPanic carrying that text.
C24_Witness ==
  /\ pc[QueryCaller] = "idle" /\ op[QueryCaller] \in CronOps
  /\ thrown[QueryCaller].type = "String"
  /\ ret[QueryCaller] = Err("InternalPanic", "index out of bounds: the len is 0")
  /\ IsSome(daemon)

\* The positions at which a call acquires the DAEMON mutex.
LockPcs == {"start_lock", "stop_lock", "status_lock", "send_lock", "cost_lock",
            "config_lock", "mem_lock"}

C26_RuntimeSingleton ==
  /\ [][IsSome(runtime) => runtime' = runtime]_vars
  /\ [][\A t \in Callers :
          (pc[t] \in {"rt_get", "rt_set"} /\ StepBy(t))
            => \/ /\ pc'[t] \in {"start_lock", "stop_lock", "send_lock", "mem_call"}
                  /\ IsSome(runtime') /\ ~built'[t]
                  /\ (pc[t] = "rt_get" => runtime' = runtime)
               \/ /\ pc[t] = "rt_get" /\ pc'[t] = "rt_set"
                  /\ runtime = <<>> /\ runtime' = <<>> /\ built'[t]
               \/ /\ pc[t] = "rt_get" /\ pc'[t] = "idle"
                  /\ ret'[t] = Err("SpawnError", "failed to create tokio runtime")
                  /\ runtime = <<>> /\ runtime' = <<>>]_vars
  /\ [](\A t \in Callers :
          pc[t] \in {"start_lock", "start_spawn", "start_install", "stop_lock"}
            => IsSome(runtime))

\* C26 witness: two first calls raced; both built a runtime, the build of
\* "t1" was installed and "t2" is about to call set with its own.
C26_Witness ==
  /\ runtime = <<"t1">>
  /\ pc["t2"] = "rt_set" /\ built["t2"]
  /\ pc["t1"] \in {"start_lock", "stop_lock"}

\* C27: for every string s, the JSON parse of the quote, escape_json_string(s)
\* and the quote succeeds and yields s; the escaped text itself holds no raw
\* control character.
C27_EscapeRoundTrip ==
  /\ calc.pc \in {"escaped", "parsed"}
       => \A i \in 1..Len(calc.out) : calc.out[i] >= 32
  /\ calc.pc = "parsed" => calc.parsed = [ok |-> TRUE, value |-> calc.s]

\* C27 witness: the string NUL, quote was escaped to \u0000\" and parsed back.
C27_Witness ==
  /\ calc.pc = "parsed"
  /\ calc.s = <<0, 34>>
  /\ calc.out = <<92, 117, 48, 48, 48, 48, 92, 34>>
  /\ calc.parsed.ok /\ calc.parsed.value = <<0, 34>>

\* C28: the FfiBudgetStatus built from a BudgetCheck has the variant of the
\* same name; for Warning and Exceeded it has the same current_usd and
\* limit_usd, and its period is "session", "day" or "month" for Session, Day
\* or Month.
C28_BudgetConversion ==
  calc.pc = "converted" =>
    /\ calc.status.variant = calc.check.variant
    /\ calc.check.variant # "Allowed" =>
         /\ calc.status.current_usd = calc.check.current_usd
         /\ calc.status.limit_usd = calc.check.limit_usd
         /\ <<calc.check.period, calc.status.period>>
              \in {<<"Session", "session">>, <<"Day", "day">>, <<"Month", "month">>}

\* C28 witness: a Warning of 8 USD against a daily limit of 10 USD converted.
C28_Witness ==
  /\ calc.pc = "converted"
  /\ calc.check = [variant |-> "Warning", current_usd |-> 8, limit_usd |-> 10,
                   period |-> "Day"]
  /\ calc.status = [variant |-> "Warning", current_usd |-> 8, limit_usd |-> 10,
                    period |-> "day"]

ExpectedTasks(text) ==
  {"state_writer", "gateway", "scheduler"}
    \cup (IF ParseConfig(text).channels
               \cap {"telegram", "discord", "slack", "imessage", "matrix", "whatsapp",
                     "email"} # {}
            THEN {"channels"} ELSE {})
    \cup (IF ParseConfig(text).heartbeat_enabled THEN {"heartbeat"} ELSE {})

\* C30: the state a Start installs tracks one handle for each of the state
\* writer, the gateway and the scheduler, for the channels supervisor exactly
\* when a real-time channel is configured and for the heartbeat supervisor
\* exactly when heartbeat is enabled; those tasks and no others of its
\* generation are running at that step, and without a real-time channel
\* "channels" is marked healthy.  Whenever the slot holds a state all its tasks
\* have been spawned, and the spawning Start holds the mutex with the slot
\* empty until it installs.
C30_TrackedTasks ==
  /\ [][\A t \in Callers :
          (pc[t] = "start_install" /\ StepBy(t) /\ IsSome(daemon'))
            => LET st == daemon'[1] IN
                 /\ Range(st.handles) = ExpectedTasks(st.config)
                 /\ Len(st.handles) = Cardinality(ExpectedTasks(st.config))
                 /\ \A n \in TaskNames :
                      tasks'[st.gen][n] = IF n \in ExpectedTasks(st.config)
                                            THEN "running" ELSE "none"
                 /\ ("channels" \notin ExpectedTasks(st.config)
                       => health'["channels"].status = "ok")]_vars
  /\ [](IsSome(daemon) =>
          \A n \in Range(daemon[1].handles) : tasks[daemon[1].gen][n] # "none")
  /\ [](\A t \in Callers :
          pc[t] \in {"start_spawn", "start_install"} => (daemon = <<>> /\ lockHolder = <<t>>))

\* C30 witness: started with heartbeat enabled and no channel configured,
\* the installed state tracks four tasks, without "channels", which is marked
\* healthy, and the other thread has read the status as running.
C30_Witness ==
  /\ IsSome(daemon)
  /\ daemon[1].config = "heartbeat_only"
  /\ daemon[1].handles = <<"state_writer", "gateway", "heartbeat", "scheduler">>
  /\ tasks[daemon[1].gen]["channels"] = "none"
  /\ health["channels"].status = "ok"
  /\ pc[QueryCaller] = "idle" /\ ret[QueryCaller] = Ok("true")

ConfiguredFloor(text) ==
  LET initial == ParseConfig(text).channel_initial_backoff_secs
  IN IF initial >= 1 THEN initial ELSE 1
ConfiguredCeiling(text) ==
  LET maximum == ParseConfig(text).channel_max_backoff_secs
  IN IF maximum >= ConfiguredFloor(text) THEN maximum ELSE ConfiguredFloor(text)

\* C32: whatever the configured backoff values (zero, a ceiling below the
\* initial value, values whose double leaves the integer range), every sleep
\* lasts at least max(initial, 1) and at most max(maximum, max(initial, 1))
\* seconds; a sleep that follows an earlier one of the same task lasts twice as
\* long as that one unless the double would exceed the ceiling, and then it
\* lasts the ceiling: the doubling never wraps, and after a failure the sleep
\* is never shorter than the one before.
C32_BackoffBounds ==
  /\ [](sup.pc = "sleep"
          => /\ ConfiguredFloor(sup_hist.config) <= sup_hist.slept
             /\ sup_hist.slept <= ConfiguredCeiling(sup_hist.config))
  /\ [][(SupOutcome /\ sup_hist'.last = "err" /\ sup_hist.iteration > 0)
          => /\ sup_hist'.slept
                  = IF sup_hist.slept > ConfiguredCeiling(sup_hist.config) \div 2
                      THEN ConfiguredCeiling(sup_hist.config)
                      ELSE 2 * sup_hist.slept
             /\ sup_hist'.slept >= sup_hist.slept]_vars

\* C32 witness: with an initial backoff just above half of the integer range
\* the second sleep in a row after a failure lasts the largest integer.
C32_Witness ==
  /\ sup.pc = "sleep" /\ sup_hist.config = "huge_backoff"
  /\ sup_hist.iteration = 2 /\ sup_hist.all_errors
  /\ sup_hist.prev_slept = 1073741824 /\ sup_hist.slept = 2147483647

\* C33: the callbacks a producer thread makes follow the order of its
\* record_event calls (the ids it took, which grow from call to call), and they
\* never overlap: when the thread invokes on_event for an event, every callback
\* it invoked for an earlier event has returned, and a callback is running only
\* while the thread is still inside the record_event call of that event.
C33_PerProducerOrder ==
  /\ [](\A t \in Producers :
          LET calls == on_event_calls[t] IN
            /\ \A i \in 1..(Len(calls) - 1) :
                 calls[i].state = "returned" /\ calls[i].id < calls[i + 1].id
            /\ (Len(calls) > 0 /\ calls[Len(calls)].state = "running")
                 => (in_callback[t] /\ eid[t] = calls[Len(calls)].id))
  /\ [][\A t \in Producers :
          Len(on_event_calls'[t]) > Len(on_event_calls[t])
            => /\ \A i \in 1..Len(on_event_calls[t]) :
                    on_event_calls'[t][i].state = "returned"
               /\ on_event_calls'[t][Len(on_event_calls'[t])].id = eid[t]]_vars

\* C33 witness: producer p1 has recorded two events while listener "A" stayed
\* registered; the callback for the first returned, then the one for the second.
C33_Witness ==
  /\ Len(on_event_calls["p1"]) = 2
  /\ \A i \in 1..2 : /\ on_event_calls["p1"][i].listener = "A"
                     /\ on_event_calls["p1"][i].state = "returned"
  /\ on_event_calls["p1"][1].id < on_event_calls["p1"][2].id
  /\ settled = <<"A">> /\ listener = <<"A">> /\ epc["p1"] = "idle"

\* C34: a Start whose configuration text does not parse never gets past the
\* argument checks: while the call is in progress it holds no mutex and has
\* written nothing, and the step that ends it returns ConfigError and leaves
\* the slot, the mutex, the tasks, the runtime and the set of workspace
\* directories as they were.
C34_BadConfigRejected ==
  /\ [](\A t \in Callers :
          (op[t] = "start_daemon" /\ pc[t] # "idle" /\ arg[t].config_toml = "bad")
            => (pc[t] = "start_validate" /\ lockHolder # <<t>> /\ effects[t] = {}))
  /\ [][\A t \in Callers :
          (pc[t] = "start_validate" /\ arg[t].config_toml = "bad" /\ StepBy(t))
            => /\ pc'[t] = "idle"
               /\ ret'[t] = [kind |-> "ConfigError", detail |-> "failed to parse config TOML"]
               /\ daemon' = daemon /\ workspace' = workspace /\ tasks' = tasks
               /\ UNCHANGED shared /\ effects'[t] = {}]_vars

\* C34 witness: in a process that never started a daemon, a Start with
\* unparsable configuration text has returned ConfigError; no workspace
\* directory exists, no task was spawned and the slot is empty.
C34_Witness ==
  \E t \in Callers :
    /\ pc[t] = "idle" /\ op[t] = "start_daemon"
    /\ ret[t] = [kind |-> "ConfigError", detail |-> "failed to parse config TOML"]
    /\ workspace = {} /\ nextGen = 1 /\ ~IsSome(daemon) /\ runtime = <<>>
    /\ \A g \in Gens, n \in TaskNames : tasks[g][n] = "none"

\* The on_event invocations made so far, by any thread, for the event id.
InvocationsOf(id) ==
  { <<t, i>> \in EventThreads \X (1..(MaxRecords + 2)) :
      i <= Len(on_event_calls[t]) /\ on_event_calls[t][i].id = id }

\* The entries buffered so far for the event id.
BufferedOf(id) == { i \in 1..Len(pushed) : pushed[i].id = id }

\* Thread t returns from record_event in this step.
RecordReturns(t) == eid[t] # -1 /\ eid'[t] = -1

\* C36: no event is ever buffered twice or delivered twice.  The step that
\* reads the slot clones exactly what the slot holds at that moment; a
\* record_event call that found the slot empty returns at once, and by the
\* time any record_event call returns it has appended exactly one entry to the
\* buffer, listener or not, and has invoked on_event exactly once on the
\* listener it cloned, and not at all when it cloned none.
C36_AtMostOnceDelivery ==
  /\ [](\A id \in 0..(event_counter - 1) :
          Cardinality(BufferedOf(id)) <= 1 /\ Cardinality(InvocationsOf(id)) <= 1)
  /\ [][\A t \in Producers :
          /\ (epc[t] = "rec_snapshot" /\ epc'[t] # "rec_snapshot")
               => IF listener = <<>>
                    THEN epc'[t] = "idle" /\ on_event_calls'[t] = on_event_calls[t]
                    ELSE epc'[t] = "on_event" /\ maybe_listener'[t] = listener
          /\ RecordReturns(t)
               => /\ Cardinality({ i \in 1..Len(pushed') : pushed'[i].id = eid[t] }) = 1
                  /\ LET mine == { i \in 1..Len(on_event_calls'[t]) :
                                     on_event_calls'[t][i].id = eid[t] }
                     IN IF maybe_listener[t] = <<>>
                          THEN mine = {}
                          ELSE /\ Cardinality(mine) = 1
                               /\ \A i \in mine :
                                    on_event_calls'[t][i].listener = maybe_listener[t][1]]_vars

\* C36 witness: producer p1 has recorded two events; the first was delivered
\* once, to listener "A", and the second, recorded after unregister, to nobody;
\* both are in the buffer.
C36_Witness ==
  /\ epc["p1"] = "idle" /\ quota["p1"] = 0 /\ settled = <<>> /\ listener = <<>>
  /\ on_event_calls["p1"] = << [id |-> 0, listener |-> "A", state |-> "returned"] >>
  /\ on_event_calls["p2"] = <<>> /\ quota["p2"] = 1
  /\ Len(event_buffer) = 2

\* C37: in every reachable state the ids of the entries of the ring buffer
\* grow strictly from the oldest entry to the newest, also when several
\* producer threads are inside record_event at the same time.
C37_BufferIdsIncreasing ==
  \A i \in 1..(Len(event_buffer) - 1) : event_buffer[i].id < event_buffer[i + 1].id

\* The event thread t is recording is in the buffer, or it was evicted from a
\* full buffer by entries pushed after it.
OwnEntryBuffered(t) ==
  LET own == [id |-> eid[t], kind |-> "heartbeat_tick"]
  IN /\ \E i \in 1..Len(pushed) : pushed[i] = own
     /\ \/ \E i \in 1..Len(event_buffer) : event_buffer[i] = own
        \/ /\ Len(event_buffer) = EVENT_BUFFER_CAPACITY
           /\ \E i \in 1..Len(pushed) :
                pushed[i] = own /\ Len(pushed) - i >= EVENT_BUFFER_CAPACITY

\* C39: from the moment record_event is about to invoke on_event for an event
\* until the callback has returned, the event has been appended to the ring
\* buffer (and is still there unless newer entries evicted it); a callback
\* that reads the buffer with a limit of at least the buffer's length is given
\* a window that holds the event.
C39_BufferedBeforeDelivered ==
  \A t \in Producers :
    /\ (epc[t] = "on_event" \/ in_callback[t]) => OwnEntryBuffered(t)
    /\ (epc[t] = "recent_read" /\ in_callback[t] /\ earg[t].limit >= Len(event_buffer))
         => \E i \in 1..Len(event_buffer) :
              /\ event_buffer[i].id = eid[t]
              /\ i > Len(event_buffer) - earg[t].limit

\* C39 witness: the re-entrant listener "B", called by producer p1 for the
\* event with id 1, reads the two buffered entries from inside on_event; the
\* event is the second of them.
C39_Witness ==
  /\ epc["p1"] = "recent_read" /\ in_callback["p1"] /\ maybe_listener["p1"] = <<"B">>
  /\ eid["p1"] = 1 /\ earg["p1"].limit = 2
  /\ Len(event_buffer) = 2 /\ event_buffer[2].id = 1

\* A wait-for cycle between Stop and record_event: Stop holds the lifecycle
\* mutex while it awaits the handle of the heartbeat task; the task cannot be
\* cancelled before its worker thread leaves record_event; the thread is inside
\* on_event, blocked in the lock() of get_status on that same mutex.
StopWaitsForRecorder(t, u) ==
  /\ pc[t] = "stop_join" /\ lockHolder = <<t>>
  /\ "heartbeat" \in Range(local_state[t][1].handles)
  /\ tasks[local_state[t][1].gen]["heartbeat"] = "aborting"
  /\ u = HeartbeatWorker /\ epc[u] = "cb_status_lock"

\* C35: the lifecycle mutex, the ring-buffer lock and the listener lock are
\* independent: no thread holds two of them at once, a thread inside
\* record_event holds no lifecycle mutex, a thread inside a lifecycle operation
\* holds no event lock, and no state is reachable in which a lifecycle call and
\* an event recording wait for each other.
C35_LocksIndependent ==
  /\ \A t \in EventThreads : ~(buf_lock = <<t>> /\ lis_lock = <<t>>)
  /\ \A t \in EventThreads : lockHolder # <<t>>
  /\ \A t \in Callers : buf_lock # <<t>> /\ lis_lock # <<t>>
  /\ \A t \in Callers, u \in EventThreads : ~StopWaitsForRecorder(t, u)

\* Generation g has been stopped: its tasks were spawned and no DaemonState
\* tracking them is left, in the slot or in the locals of a Start or Stop.
StoppedGen(g) ==
  /\ g < nextGen
  /\ \A i \in 1..Len(daemon) : daemon[i].gen # g
  /\ \A t \in Callers : \A i \in 1..Len(local_state[t]) : local_state[t][i].gen # g

\* C38: no supervised task outlives the Stop of its generation: once Stop has
\* returned, every task of the generation has terminated, its supervisor marks
\* no health, counts no restart and starts no attempt, no snapshot of it is
\* written to daemon_state.json, and at the step in which a Start installs its
\* state every live task belongs to the installed generation.
C38_NoTaskOutlivesStop ==
  /\ [](\A g \in Gens : StoppedGen(g) => \A n \in TaskNames : tasks[g][n] \in {"none", "done"})
  /\ [][\A g \in Gens : StoppedGen(g) =>
          /\ (sup.gen = g => (sup' = sup \/ sup'.gen # g))
          /\ (g \in writer'.in_flight) = (g \in writer.in_flight)]_vars
  /\ [][(daemon = <<>> /\ Len(daemon') = 1) =>
          \A g \in Gens : \A n \in TaskNames :
            tasks'[g][n] \in {"running", "aborting"} => g = daemon'[1].gen]_vars

====
